---------------------------- MODULE Spec2Model ----------------------------
(***************************************************************************)
(* A model of the sketch-review serverless handlers: the token check       *)
(* (validateToken), the purchase-order upload handler in its two variants  *)
(* (api/upload-po.js and the single-recipient one of api/deal.js), the     *)
(* token-gated read handler (po-quote-review), the po-quote read handler   *)
(* and the two /api/deal handlers, with the CRM, the notification webhook  *)
(* and the alerting sink as external collaborators whose every call may    *)
(* succeed, answer a non-success status, or raise.                         *)
(***************************************************************************)
EXTENDS Integers, Sequences, FiniteSets, TLC

VARIABLES
  env,    \* process.env: PO_QUOTE_SECRET and HUBSPOT_TOKEN
  crm,    \* the CRM's contents (deal, contacts, line items, files, notes)
  req,    \* the request being handled
  pc,     \* the handler's position (the await it is suspended at)
  loc,    \* the handler's local variables
  out,    \* the outcome of each external call made so far
  calls,  \* the external calls issued, in order
  res,    \* the response sent (status 0: none yet)
  tk,     \* the token authority exercised on its own
  rl,     \* contact role resolution exercised on its own
  peer    \* a second request in flight, suspended at an await

vars == <<env, crm, req, pc, loc, out, calls, res, tk, rl, peer>>

-----------------------------------------------------------------------------
(* JavaScript values.  A string is a sequence of characters; a character   *)
(* is named by a TLA+ string ("a", "0", ..., "e_acute" for U+00E9).  A run *)
(* of characters that no code inspects is written as one element           *)
(* (<<"application/pdf">>).  A base64 text, too long to spell out, is       *)
(* [k |-> "base64", prefix, chars]: a data-URL prefix or none, and the     *)
(* number of base64 characters that follow.                                *)

Undefined == [k |-> "undefined"]
Str(s) == [k |-> "string", s |-> s]
Num(n) == [k |-> "number", n |-> n]

Base64Text(prefix, chars) == [k |-> "base64", prefix |-> prefix, chars |-> chars]
Null == [k |-> "null"]
NaN == [k |-> "nan"]

\* !v : undefined, null, NaN, the empty string and 0 are falsy.
Falsy(v) ==
  \/ v.k \in {"undefined", "null", "nan"}
  \/ v.k = "string" /\ v.s = <<>>
  \/ v.k = "number" /\ v.n = 0
  \/ v.k = "double" /\ v.m = <<>>
  \/ v.k = "base64" /\ ~v.prefix /\ v.chars = 0

\* a || b
Or(a, b) == IF Falsy(a) THEN b ELSE a

HexChars == <<"0", "1", "2", "3", "4", "5", "6", "7",
              "8", "9", "a", "b", "c", "d", "e", "f">>

\* The code point of a character.
Code(c) ==
  CASE c = "0" -> 48 [] c = "1" -> 49 [] c = "2" -> 50 [] c = "3" -> 51
    [] c = "4" -> 52 [] c = "5" -> 53 [] c = "6" -> 54 [] c = "7" -> 55
    [] c = "8" -> 56 [] c = "9" -> 57
    [] c = "a" -> 97 [] c = "b" -> 98 [] c = "c" -> 99 [] c = "d" -> 100
    [] c = "e" -> 101 [] c = "f" -> 102 [] c = "k" -> 107 [] c = "z" -> 122
    [] c = "e_acute" -> 233
    [] OTHER -> 63

\* Buffer.from(c, 'utf8') for one character: one byte below U+0080, two
\* bytes below U+0800.
Utf8Char(c) ==
  IF Code(c) < 128 THEN <<Code(c)>>
  ELSE <<192 + (Code(c) \div 64), 128 + (Code(c) % 64)>>

RECURSIVE Utf8(_)
\* Buffer.from(s, 'utf8')
Utf8(s) == IF s = <<>> THEN <<>> ELSE Utf8Char(Head(s)) \o Utf8(Tail(s))

RECURSIVE Digits(_)
Digits(n) ==
  IF n < 10 THEN <<HexChars[n + 1]>>
  ELSE Digits(n \div 10) \o <<HexChars[(n % 10) + 1]>>

\* String(v)
JsString(v) ==
  CASE v.k = "string" -> v.s
    [] v.k = "number" -> Digits(v.n)
    [] OTHER -> <<"u", "n", "d", "e", "f", "i", "n", "e", "d">>

\* s.substring(0, n)
Substring0(s, n) == SubSeq(s, 1, IF Len(s) < n THEN Len(s) ELSE n)

RECURSIVE PadEnd(_, _, _)
\* s.padEnd(n, c)
PadEnd(s, n, c) == IF Len(s) >= n THEN s ELSE PadEnd(Append(s, c), n, c)

-----------------------------------------------------------------------------
(* Token Authority.                                                        *)

\* The length of the token: the hex digest is cut to its first 16 characters.
TokenLen == 16

\* The length of a SHA-256 digest in hex.
DigestHexLen == 64

RECURSIVE Mix(_, _)
Mix(s, acc) ==
  IF s = <<>> THEN acc ELSE Mix(Tail(s), (acc * 31 + Code(Head(s))) % 65521)

\* crypto.createHmac('sha256', key).update(msg).digest('hex'): a
\* deterministic keyed function to 64 lower-case hex characters.  SHA-256
\* itself is a library, not code of the repository; it is stood in for by a
\* keyed mixing function with the same signature.
HmacSha256Hex(key, msg) ==
  LET k == Mix(key, 7)
      m == Mix(msg, 11)
  IN [i \in 1..DigestHexLen |->
        HexChars[((((k + 17 * i) * (m + 29 * i) + k * i * i + m * i) \div 7) % 16) + 1]]

\* The comparison of validateToken with the padded token cut one short.
ValidateTokenShortPad(secret, dealId, token) ==
  IF Falsy(secret) \/ Falsy(token) THEN "false"
  ELSE LET expected == Substring0(HmacSha256Hex(secret.s, JsString(dealId)), TokenLen)
           supplied == PadEnd(Substring0(JsString(token), TokenLen - 1), TokenLen - 1, "0")
       IN IF Len(Utf8(expected)) # Len(Utf8(supplied)) THEN "throw"
          ELSE IF Utf8(expected) = Utf8(supplied) THEN "true" ELSE "false"

\* validateToken without the fail-closed check of the secret.
ValidateTokenNoSecretCheck(secret, dealId, token) ==
  IF Falsy(token) THEN "false"
  ELSE LET key == IF secret.k = "string" THEN secret.s ELSE <<>>
           expected == Substring0(HmacSha256Hex(key, JsString(dealId)), TokenLen)
           supplied == PadEnd(Substring0(JsString(token), TokenLen), TokenLen, "0")
       IN IF Len(Utf8(expected)) # Len(Utf8(supplied)) THEN "throw"
          ELSE IF Utf8(expected) = Utf8(supplied) THEN "true" ELSE "false"

\* validateToken comparing the whole supplied token, not its first 16
\* characters.
ValidateTokenWholeToken(secret, dealId, token) ==
  IF Falsy(secret) \/ Falsy(token) THEN "false"
  ELSE LET expected == Substring0(HmacSha256Hex(secret.s, JsString(dealId)), TokenLen)
           supplied == PadEnd(JsString(token), TokenLen, "0")
       IN IF Len(Utf8(expected)) # Len(Utf8(supplied)) THEN "throw"
          ELSE IF Utf8(expected) = Utf8(supplied) THEN "true" ELSE "false"

\* validateToken(dealId, token) with process.env.PO_QUOTE_SECRET = secret.
\* "true" / "false" are its return values; "throw" is the RangeError that
\* crypto.timingSafeEqual raises when its two buffers differ in byte length.
ValidateToken(secret, dealId, token) ==
  IF Falsy(secret) \/ Falsy(token) THEN "false"
  ELSE LET expected == Substring0(HmacSha256Hex(secret.s, JsString(dealId)), TokenLen)
           supplied == PadEnd(Substring0(JsString(token), TokenLen), TokenLen, "0")
       IN IF Len(Utf8(expected)) # Len(Utf8(supplied)) THEN "throw"
          ELSE IF Utf8(expected) = Utf8(supplied) THEN "true" ELSE "false"


\* issue(dealId): the first 16 hex characters of HMAC-SHA256(secret, String(dealId)).
Issue(secret, dealId) ==
  SubSeq(HmacSha256Hex(secret.s, JsString(dealId)), 1, TokenLen)

-----------------------------------------------------------------------------
(* The inputs the checks draw from.                                        *)

SecretA == Str(<<"k", "6">>)
SecretB == Str(<<"k", "2">>)

\* PO_QUOTE_SECRET: unset, set to the empty string, or set.
SecretValues == {Undefined, Str(<<>>), SecretA, SecretB}

\* A dealId arrives as a JSON number or as a string.
DealIdValues == {Undefined, Num(101), Str(<<"1", "0", "1">>), Str(<<"1", "0", "2">>)}

RECURSIVE StripZeros(_)
StripZeros(s) ==
  IF s # <<>> /\ s[Len(s)] = "0" THEN StripZeros(SubSeq(s, 1, Len(s) - 1)) ELSE s

\* The tokens tried against a link issued for dealId under key: the issued
\* token, the token followed by more characters, the token without its
\* trailing '0's, a prefix of it, the token with its last or its first
\* character changed, the token of another deal or key, tokens holding a
\* two-byte character, the empty string and no token.
TokenValues(key, dealId) ==
  LET e == Issue(key, dealId)
      last == IF e[TokenLen] = "f" THEN "e" ELSE "f"
  IN { Undefined,
       Str(<<>>),
       Str(e),
       Str(e \o <<"z", "z">>),
       Str(StripZeros(e)),
       Str(SubSeq(e, 1, 8)),
       Str([e EXCEPT ![TokenLen] = last]),
       Str([e EXCEPT ![1] = "z"]),
       Str(Issue(SecretB, dealId)),
       Str(Issue(key, Str(<<"1", "0", "2">>))),
       Str(<<"e_acute">>),
       Str([e EXCEPT ![TokenLen] = "e_acute"]),
       Str(e \o <<"e_acute">>) }

-----------------------------------------------------------------------------
(* The handlers' state when no handler runs.                               *)

NoReq == [endpoint |-> "none"]
NoRes == [status |-> 0]

HandlersIdle ==
  /\ env = [secret |-> Undefined, hubspotToken |-> Undefined]
  /\ crm = <<>>
  /\ req = NoReq
  /\ pc = "idle"
  /\ loc = <<>>
  /\ out = <<>>
  /\ calls = <<>>
  /\ res = NoRes
  /\ peer = <<>>

handlerVars == <<env, crm, req, pc, loc, out, calls, res, peer>>

-----------------------------------------------------------------------------
(* TokenSpec: validateToken exercised on its own.  A link is issued for a  *)
(* deal, a token is supplied, and the token is verified, repeatedly.       *)

\* How many times one token is verified.
MaxVerifyCalls == 2

TkInit ==
  /\ tk \in [secret : SecretValues, dealId : DealIdValues \ {Undefined},
             token : {Undefined}, issued : {FALSE}, results : {<<>>}]
  /\ rl = <<>>
  /\ HandlersIdle

\* The link's token is issued for the deal under the configured secret.
TkIssue ==
  /\ ~Falsy(tk.secret)
  /\ tk.results = <<>>
  /\ tk' = [tk EXCEPT !.token = Str(Issue(tk.secret, tk.dealId)), !.issued = TRUE]
  /\ UNCHANGED <<rl, handlerVars>>

\* A caller supplies a token of its own.
TkSupply ==
  /\ tk.results = <<>>
  /\ \E t \in TokenValues(IF Falsy(tk.secret) THEN SecretA ELSE tk.secret, tk.dealId) :
        tk' = [tk EXCEPT !.token = t, !.issued = FALSE]
  /\ UNCHANGED <<rl, handlerVars>>

\* validateToken(dealId, token) is called.
TkVerify ==
  /\ Len(tk.results) < MaxVerifyCalls
  /\ tk' = [tk EXCEPT !.results =
                 Append(@, ValidateToken(tk.secret, tk.dealId, tk.token))]
  /\ UNCHANGED <<rl, handlerVars>>

TkNext == TkIssue \/ TkSupply \/ TkVerify

TokenSpec == TkInit /\ [][TkNext]_vars

\* C6: for any Deal id and any set, non-empty secret, every verification of
\* the token issued for that Deal under that secret returns true, on the
\* first call and on every later one.
C6_IssuedTokenVerifies ==
  tk # <<>> /\ tk.issued =>
    \A i \in 1..Len(tk.results) : tk.results[i] = "true"

\* An issued token has been verified more than once.
C6_Witness ==
  tk # <<>> /\ tk.issued /\ Len(tk.results) = MaxVerifyCalls
  /\ tk.dealId.k = "number"

-----------------------------------------------------------------------------
(* Contact role resolution.  An association entry is                       *)
(* {toObjectId, associationTypes: [{typeId, label}]}.                      *)

RECURSIVE FirstLabelled(_, _)
\* allAssocs.find(r => (r.associationTypes || []).some(a => a.label === label))
FirstLabelled(allAssocs, label) ==
  IF allAssocs = <<>> THEN Undefined
  ELSE IF \E i \in DOMAIN Head(allAssocs).associationTypes :
             Head(allAssocs).associationTypes[i].label = label
       THEN Head(allAssocs)
       ELSE FirstLabelled(Tail(allAssocs), label)

\* payerAssoc taking the last entry labelled "Payer" instead of the first.
PayerAssocLast(allAssocs) ==
  FirstLabelled([i \in 1..Len(allAssocs) |-> allAssocs[Len(allAssocs) + 1 - i]], "Payer")

\* payerAssoc: the first entry labelled "Payer", if any.
PayerAssoc(allAssocs) == FirstLabelled(allAssocs, "Payer")

\* primaryAssoc taking the first entry without looking for the label.
PrimaryAssocFirstEntry(allAssocs) ==
  IF allAssocs # <<>> THEN allAssocs[1] ELSE Undefined

\* primaryAssoc: the first entry labelled "Primary Contact", or else the
\* first entry of the list (undefined for an empty list).
PrimaryAssoc(allAssocs) ==
  LET found == FirstLabelled(allAssocs, "Primary Contact")
  IN IF found # Undefined THEN found
     ELSE IF allAssocs # <<>> THEN allAssocs[1] ELSE Undefined

\* The number of entries carrying a label.
CountLabelled(allAssocs, label) ==
  Cardinality({i \in DOMAIN allAssocs :
                 \E j \in DOMAIN allAssocs[i].associationTypes :
                    allAssocs[i].associationTypes[j].label = label})

\* The most contacts associated with a deal.
MaxContacts == 3

ContactIds == 1..MaxContacts

Unlabelled == [typeId |-> 3, label |-> "null"]
PayerType == [typeId |-> 102, label |-> "Payer"]
PrimaryType == [typeId |-> 100, label |-> "Primary Contact"]

\* The associationTypes an entry may carry.
AssociationTypeLists ==
  { <<Unlabelled>>, <<Unlabelled, PayerType>>, <<Unlabelled, PrimaryType>>,
    <<Unlabelled, PayerType, PrimaryType>> }

AssocEntries == [toObjectId : ContactIds, associationTypes : AssociationTypeLists]

\* The association lists of at most MaxContacts entries, one per contact.
AssocLists ==
  UNION { { l \in [1..n -> AssocEntries] :
              \A i, j \in 1..n : i # j => l[i].toObjectId # l[j].toObjectId } :
          n \in 0..MaxContacts }

Orderings(n) == { p \in [1..n -> 1..n] : \A i, j \in 1..n : i # j => p[i] # p[j] }

-----------------------------------------------------------------------------
(* RoleSpec: role resolution exercised on an association list and on a     *)
(* permutation of it.                                                      *)

RlInit ==
  /\ rl \in { [stage |-> "listed", allAssocs |-> l, permuted |-> l,
               payer |-> Undefined, primary |-> Undefined,
               payerP |-> Undefined, primaryP |-> Undefined] : l \in AssocLists }
  /\ tk = <<>>
  /\ HandlersIdle

\* The CRM returns the same entries in another order.
RlPermute ==
  /\ rl.stage = "listed"
  /\ \E p \in Orderings(Len(rl.allAssocs)) :
        rl' = [rl EXCEPT !.stage = "permuted",
                         !.permuted = [i \in 1..Len(rl.allAssocs) |-> rl.allAssocs[p[i]]]]
  /\ UNCHANGED <<tk, handlerVars>>

\* Roles are resolved on both orders.
RlResolve ==
  /\ rl.stage = "permuted"
  /\ rl' = [rl EXCEPT !.stage = "resolved",
                      !.payer = PayerAssoc(rl.allAssocs),
                      !.primary = PrimaryAssoc(rl.allAssocs),
                      !.payerP = PayerAssoc(rl.permuted),
                      !.primaryP = PrimaryAssoc(rl.permuted)]
  /\ UNCHANGED <<tk, handlerVars>>

RlNext == RlPermute \/ RlResolve

RoleSpec == RlInit /\ [][RlNext]_vars

RlResolved == rl # <<>> /\ rl.stage = "resolved"

\* C10 (as claimed): for any association list and any permutation of it,
\* the same Contact is selected as Payer and the same as Primary.
C10_OrderIndependent ==
  RlResolved => rl.payer = rl.payerP /\ rl.primary = rl.primaryP

\* C10 (amended): the Payer is the same under every permutation when at
\* most one entry is labelled "Payer"; the Primary is the same under every
\* permutation when exactly one entry is labelled "Primary Contact", or
\* when none is and the list has at most one entry.
C10_OrderIndependentWhenUnambiguous ==
  RlResolved =>
    /\ CountLabelled(rl.allAssocs, "Payer") <= 1 => rl.payer = rl.payerP
    /\ (\/ CountLabelled(rl.allAssocs, "Primary Contact") = 1
        \/ CountLabelled(rl.allAssocs, "Primary Contact") = 0 /\ Len(rl.allAssocs) <= 1)
         => rl.primary = rl.primaryP

\* Three contacts, one Payer and one Primary Contact, resolved after a
\* permutation that changed the order.
C10_Witness ==
  /\ RlResolved
  /\ Len(rl.allAssocs) = 3
  /\ rl.permuted # rl.allAssocs
  /\ CountLabelled(rl.allAssocs, "Payer") = 1
  /\ CountLabelled(rl.allAssocs, "Primary Contact") = 1
  /\ rl.payer # Undefined /\ rl.primary # Undefined /\ rl.payer # rl.primary
  /\ rl.allAssocs[1] # rl.primary /\ rl.permuted[1] # rl.primary

\* The positions of the entries carrying a label.
LabelledAt(allAssocs, label) ==
  {i \in DOMAIN allAssocs :
     \E j \in DOMAIN allAssocs[i].associationTypes :
        allAssocs[i].associationTypes[j].label = label}

Lowest(S) == CHOOSE i \in S : \A j \in S : i <= j

\* C11: for any ordered association list, the Payer is the first entry
\* labelled "Payer" (none when no entry is); the Primary is the first entry
\* labelled "Primary Contact", or the first entry of the list whatever its
\* labels when no entry is; the Primary is absent only for the empty list.
C11_FirstMatchRoles ==
  RlResolved =>
    \A l \in {rl.allAssocs, rl.permuted} :
      LET payer == IF l = rl.allAssocs THEN rl.payer ELSE rl.payerP
          primary == IF l = rl.allAssocs THEN rl.primary ELSE rl.primaryP
          P == LabelledAt(l, "Payer")
          Q == LabelledAt(l, "Primary Contact")
      IN /\ payer = IF P = {} THEN Undefined ELSE l[Lowest(P)]
         /\ primary = IF Q # {} THEN l[Lowest(Q)]
                      ELSE IF Len(l) > 0 THEN l[1] ELSE Undefined
         /\ primary = Undefined <=> l = <<>>

\* Two entries labelled "Payer" after an unlabelled first entry, and no
\* "Primary Contact": the first of the two is the Payer, the unlabelled
\* first entry is the Primary.
C11_Witness ==
  /\ RlResolved
  /\ Len(rl.allAssocs) = 3
  /\ LabelledAt(rl.allAssocs, "Payer") = {2, 3}
  /\ LabelledAt(rl.allAssocs, "Primary Contact") = {}
  /\ rl.payer = rl.allAssocs[2]
  /\ rl.primary = rl.allAssocs[1]

-----------------------------------------------------------------------------
(* The external collaborators.  Every awaited call ends in one of three    *)
(* ways: "ok" (a success status, body read), "bad" (a non-success status,  *)
(* body read where the code reads it) or "throw" (fetch, or the reading of *)
(* the body, raised).                                                      *)

Outcomes == {"ok", "bad", "throw"}

NoOut == [deal |-> "none", lineAssoc |-> "none", batch |-> "none",
          assoc |-> "none", payer |-> "none", primary |-> "none",
          upload |-> "none", note |-> "none", patch |-> "none",
          notify |-> "none", report |-> "none",
          search |-> "none", quoteAssoc |-> "none", quote |-> "none"]

Call(op, id) == [op |-> op, id |-> id]

Ops(cs) == {cs[i].op : i \in DOMAIN cs}

\* What the CRM holds that the handlers write: files, notes and the Deal's
\* purchase-order properties.
CrmInit == [files |-> <<>>, notes |-> <<>>,
            props |-> [po_quote_status |-> Undefined, po_document_url |-> Undefined,
                       po_received_date |-> Undefined, po |-> Undefined,
                       po_status |-> Undefined]]

\* What the CRM answers to GET /objects/deals/{id}: the Deal's properties.
DealRecords ==
  { [dealname |-> Str(<<"Acme">>), po_quote_title |-> Str(<<"Uniforms">>)],
    [dealname |-> Str(<<"Acme">>), po_quote_title |-> Undefined],
    [dealname |-> Undefined, po_quote_title |-> Undefined] }

Entry(id, types) == [toObjectId |-> id, associationTypes |-> types]

\* What the CRM answers to GET .../associations/contacts.
ContactAssocLists ==
  { <<>>,
    <<Entry(1, <<Unlabelled>>), Entry(2, <<Unlabelled, PrimaryType>>),
      Entry(3, <<Unlabelled, PayerType>>)>>,
    <<Entry(1, <<Unlabelled, PayerType, PrimaryType>>)>>,
    <<Entry(2, <<Unlabelled>>), Entry(1, <<Unlabelled>>)>>,
    <<Entry(4, <<Unlabelled, PayerType>>), Entry(1, <<Unlabelled, PrimaryType>>)>>,
    <<Entry(1, <<Unlabelled, PayerType>>), Entry(3, <<Unlabelled, PrimaryType>>)>> }

\* What the CRM answers to GET /objects/contacts/{id}: contacts 1 and 3
\* share a mailbox, contact 4 has no email and no name.
ContactRecord(id) ==
  CASE id = 1 -> [id |-> Str(Digits(id)), email |-> Str(<<"a@x">>), name |-> Str(<<"Ann">>)]
    [] id = 2 -> [id |-> Str(Digits(id)), email |-> Str(<<"b@x">>), name |-> Str(<<"Bob">>)]
    [] id = 3 -> [id |-> Str(Digits(id)), email |-> Str(<<"a@x">>), name |-> Str(<<"Cy">>)]
    [] OTHER -> [id |-> Str(Digits(id)), email |-> Undefined, name |-> Str(<<>>)]

-----------------------------------------------------------------------------
(* The write endpoint, api/upload-po.js.                                   *)

AllowedTypes == {<<"application/pdf">>, <<"image/png">>, <<"image/jpeg">>}

MaxSize == 3 * 1024 * 1024

\* The length of the text as sent, data-URL prefix included.
Base64TextLength(fileData) == fileData.chars + (IF fileData.prefix THEN 28 ELSE 0)

\* Buffer.from(base64Raw, 'base64').length, base64Raw being the text after
\* the data-URL prefix's comma, or the whole text when there is no comma:
\* four base64 characters decode to three bytes.
DecodedLength(fileData) == (fileData.chars * 3) \div 4

Respond(status, body) == [kind |-> "respond", status |-> status, body |-> body]
ErrorBody(msg) == [error |-> msg]
NoBody == [end |-> TRUE]

\* The write endpoint's checks with the payload validated before the token.
UploadPoPreludeValidateFirst(e, r) ==
  IF r.method = "OPTIONS" THEN Respond(200, NoBody)
  ELSE IF r.method # "POST" THEN Respond(405, ErrorBody("POST only"))
  ELSE IF Falsy(r.dealId) \/ Falsy(r.token)
    THEN Respond(400, ErrorBody("dealId and token are required"))
  ELSE IF Falsy(r.fileData) \/ Falsy(r.fileName)
    THEN Respond(400, ErrorBody("fileName and fileData are required"))
  ELSE IF ~Falsy(r.fileType) /\ r.fileType.s \notin AllowedTypes
    THEN Respond(400, ErrorBody("File type not allowed"))
  ELSE IF DecodedLength(r.fileData) > MaxSize
    THEN Respond(400, ErrorBody("File is too large (max 3MB)"))
  ELSE IF ValidateToken(e.secret, r.dealId, r.token) = "throw" THEN [kind |-> "throw"]
  ELSE IF ValidateToken(e.secret, r.dealId, r.token) = "false"
    THEN Respond(403, ErrorBody("Invalid or expired link"))
  ELSE IF Falsy(e.hubspotToken)
    THEN Respond(500, ErrorBody("HubSpot token not configured"))
  ELSE [kind |-> "continue"]

\* The synchronous checks of the write endpoint, up to its first await:
\* a response, an exception that nothing catches, or the way on.
UploadPoPrelude(e, r) ==
  IF r.method = "OPTIONS" THEN Respond(200, NoBody)
  ELSE IF r.method # "POST" THEN Respond(405, ErrorBody("POST only"))
  ELSE IF Falsy(r.dealId) \/ Falsy(r.token)
    THEN Respond(400, ErrorBody("dealId and token are required"))
  ELSE IF ValidateToken(e.secret, r.dealId, r.token) = "throw" THEN [kind |-> "throw"]
  ELSE IF ValidateToken(e.secret, r.dealId, r.token) = "false"
    THEN Respond(403, ErrorBody("Invalid or expired link"))
  ELSE IF Falsy(r.fileData) \/ Falsy(r.fileName)
    THEN Respond(400, ErrorBody("fileName and fileData are required"))
  ELSE IF ~Falsy(r.fileType) /\ r.fileType.s \notin AllowedTypes
    THEN Respond(400, ErrorBody("File type not allowed"))
  ELSE IF DecodedLength(r.fileData) > MaxSize
    THEN Respond(400, ErrorBody("File is too large (max 3MB)"))
  ELSE IF Falsy(e.hubspotToken)
    THEN Respond(500, ErrorBody("HubSpot token not configured"))
  ELSE [kind |-> "continue"]

\* fileName.split('.').pop() || 'pdf'
Ext(fileName) ==
  LET dots == {i \in DOMAIN fileName : fileName[i] = "."}
      last == IF dots = {} THEN 0 ELSE CHOOSE i \in dots : \A j \in dots : j <= i
      tail == SubSeq(fileName, last + 1, Len(fileName))
  IN IF tail = <<>> THEN <<"pdf">> ELSE tail

UploadLocInit ==
  [dealName |-> Undefined, quoteTitle |-> Undefined,
   contactEmail |-> Str(<<>>), contactName |-> Str(<<>>),
   ccEmail |-> Str(<<>>), ccName |-> Str(<<>>),
   payerAssoc |-> Undefined, primaryAssoc |-> Undefined,
   fileId |-> Undefined, fileUrl |-> Undefined,
   error |-> "none", payload |-> Undefined]

\* The request bodies a caller of the write endpoint may send.
UploadFileNames == {Undefined, Str(<<"po", ".", "pdf">>)}
UploadFileTypes == {Undefined, Str(<<"application/pdf">>), Str(<<"application/zip">>)}
UploadFileData ==
  {Undefined, Base64Text(FALSE, 8),
   Base64Text(TRUE, 4194304), Base64Text(FALSE, 4194304),
   Base64Text(TRUE, 4194306), Base64Text(FALSE, 4194306)}
RequestDealIds == {Undefined, Num(101), Str(<<"1", "0", "2">>)}

\* The tokens a caller sends: those tried against the link issued for the
\* deal under SecretA.
RequestTokens(dealId) ==
  TokenValues(SecretA, IF Falsy(dealId) THEN Num(101) ELSE dealId)

UploadRequests ==
  { [endpoint |-> "upload-po", method |-> m, dealId |-> Undefined, token |-> Undefined,
     fileName |-> Undefined, fileType |-> Undefined, fileData |-> Undefined] :
       m \in {"OPTIONS", "GET", "POST"} }
  \cup
  UNION { { [endpoint |-> "upload-po", method |-> "POST", dealId |-> d, token |-> t,
             fileName |-> n, fileType |-> ty, fileData |-> fd] :
              t \in RequestTokens(d), n \in UploadFileNames,
              ty \in UploadFileTypes, fd \in UploadFileData } :
          d \in RequestDealIds }

\* The two variants of the write endpoint: api/upload-po.js, and the one
\* in api/deal.js (lines 166-318) that notifies a single recipient without
\* awaiting the notification.
UploadEndpoints == {"upload-po", "upload-po-single"}

\* A POST (or any other) request reaches the write endpoint.
UploadPoReceive ==
  /\ pc = "idle"
  /\ \E r \in UploadRequests, ep \in UploadEndpoints : req' = [r EXCEPT !.endpoint = ep]
  /\ pc' = "prelude"
  /\ loc' = UploadLocInit
  /\ UNCHANGED <<env, crm, out, calls, res, tk, rl, peer>>

IsUpload(at) == req.endpoint \in UploadEndpoints /\ pc = at

\* upload-po.js lines 33-59: CORS headers, method, dealId/token, token
\* check, payload validation, configuration.
UploadPoValidate ==
  /\ IsUpload("prelude")
  /\ LET p == UploadPoPrelude(env, req)
     IN CASE p.kind = "respond" ->
               /\ res' = [status |-> p.status, body |-> p.body]
               /\ pc' = "done"
          [] p.kind = "throw" ->
               /\ res' = res
               /\ pc' = "crashed"
          [] OTHER ->
               /\ res' = res
               /\ pc' = "fetchDeal"
  /\ UNCHANGED <<env, crm, req, loc, out, calls, tk, rl, peer>>

\* The Deal fetch answering a non-success status with a client error.
UploadPoFetchDealBadRequest ==
  /\ IsUpload("fetchDeal")
  /\ calls' = Append(calls, Call("getDeal", req.dealId))
  /\ out' = [out EXCEPT !.deal = "bad"]
  /\ res' = [status |-> 400, body |-> ErrorBody("Deal not found")]
  /\ pc' = "done"
  /\ UNCHANGED <<env, crm, req, loc, tk, rl, peer>>

\* The Deal fetch raising on a non-success status, as the upload does.
UploadPoFetchDealThrows ==
  /\ IsUpload("fetchDeal")
  /\ calls' = Append(calls, Call("getDeal", req.dealId))
  /\ \E o \in Outcomes :
       /\ out' = [out EXCEPT !.deal = o]
       /\ IF o = "ok"
          THEN \E deal \in DealRecords :
                 /\ loc' = [loc EXCEPT
                              !.dealName = Or(deal.dealname, req.dealId),
                              !.quoteTitle = Or(deal.po_quote_title,
                                                Or(deal.dealname, req.dealId))]
                 /\ res' = res
                 /\ pc' = "fetchAssoc"
          ELSE /\ loc' = [loc EXCEPT !.error = "getDeal"]
               /\ res' = res
               /\ pc' = "catch"
  /\ UNCHANGED <<env, crm, req, tk, rl, peer>>

\* upload-po.js lines 69-76: the Deal's name and quote title.
UploadPoFetchDeal ==
  /\ IsUpload("fetchDeal")
  /\ calls' = Append(calls, Call("getDeal", req.dealId))
  /\ \E o \in Outcomes :
       /\ out' = [out EXCEPT !.deal = o]
       /\ CASE o = "ok" ->
                 \E deal \in DealRecords :
                   /\ loc' = [loc EXCEPT
                                !.dealName = Or(deal.dealname, req.dealId),
                                !.quoteTitle = Or(deal.po_quote_title,
                                                  Or(deal.dealname, req.dealId))]
                   /\ res' = res
                   /\ pc' = "fetchAssoc"
            [] o = "bad" ->
                 /\ res' = [status |-> 404, body |-> ErrorBody("Deal not found")]
                 /\ loc' = loc
                 /\ pc' = "done"
            [] OTHER ->
                 /\ loc' = [loc EXCEPT !.error = "getDeal"]
                 /\ res' = res
                 /\ pc' = "catch"
  /\ UNCHANGED <<env, crm, req, tk, rl, peer>>

\* upload-po.js lines 84-98: the Deal's contact associations; payer and
\* primary are picked by label.  A failure here is swallowed (line 136).
UploadPoFetchAssoc ==
  /\ IsUpload("fetchAssoc")
  /\ req.endpoint = "upload-po"
  /\ calls' = Append(calls, Call("getContactAssocs", req.dealId))
  /\ \E o \in Outcomes :
       /\ out' = [out EXCEPT !.assoc = o]
       /\ IF o = "ok"
          THEN \E allAssocs \in ContactAssocLists :
                 /\ loc' = [loc EXCEPT !.payerAssoc = PayerAssoc(allAssocs),
                                       !.primaryAssoc = PrimaryAssoc(allAssocs)]
                 /\ pc' = IF PayerAssoc(allAssocs) # Undefined THEN "fetchPayer"
                          ELSE IF PrimaryAssoc(allAssocs) # Undefined THEN "fetchPrimary"
                          ELSE "upload"
          ELSE /\ loc' = loc
               /\ pc' = "upload"
  /\ UNCHANGED <<env, crm, req, res, tk, rl, peer>>

\* upload-po.js lines 101-111: the payer's email and name.
UploadPoFetchPayer ==
  /\ IsUpload("fetchPayer")
  /\ req.endpoint = "upload-po"
  /\ calls' = Append(calls, Call("getContact", Num(loc.payerAssoc.toObjectId)))
  /\ \E o \in Outcomes :
       /\ out' = [out EXCEPT !.payer = o]
       /\ CASE o = "ok" ->
                 LET p == ContactRecord(loc.payerAssoc.toObjectId)
                 IN /\ loc' = [loc EXCEPT !.contactEmail = Or(p.email, Str(<<>>)),
                                          !.contactName = p.name]
                    /\ pc' = IF loc.primaryAssoc # Undefined THEN "fetchPrimary" ELSE "upload"
            [] o = "bad" ->
                 /\ loc' = loc
                 /\ pc' = IF loc.primaryAssoc # Undefined THEN "fetchPrimary" ELSE "upload"
            [] OTHER ->
                 /\ loc' = loc
                 /\ pc' = "upload"
  /\ UNCHANGED <<env, crm, req, res, tk, rl, peer>>

\* The primary contact copied whenever there is a recipient already,
\* without comparing the addresses.
UploadPoFetchPrimaryAlwaysCc ==
  /\ IsUpload("fetchPrimary")
  /\ req.endpoint = "upload-po"
  /\ calls' = Append(calls, Call("getContact", Num(loc.primaryAssoc.toObjectId)))
  /\ \E o \in Outcomes :
       /\ out' = [out EXCEPT !.primary = o]
       /\ IF o = "ok"
          THEN LET c == ContactRecord(loc.primaryAssoc.toObjectId)
                   primaryEmail == Or(c.email, Str(<<>>))
               IN loc' = IF Falsy(loc.contactEmail)
                         THEN [loc EXCEPT !.contactEmail = primaryEmail,
                                          !.contactName = c.name]
                         ELSE [loc EXCEPT !.ccEmail = primaryEmail, !.ccName = c.name]
          ELSE loc' = loc
  /\ pc' = "upload"
  /\ UNCHANGED <<env, crm, req, res, tk, rl, peer>>

\* upload-po.js lines 114-134: the primary contact; it is the recipient
\* when there is no payer email, and the CC when its email differs.
UploadPoFetchPrimary ==
  /\ IsUpload("fetchPrimary")
  /\ req.endpoint = "upload-po"
  /\ calls' = Append(calls, Call("getContact", Num(loc.primaryAssoc.toObjectId)))
  /\ \E o \in Outcomes :
       /\ out' = [out EXCEPT !.primary = o]
       /\ IF o = "ok"
          THEN LET c == ContactRecord(loc.primaryAssoc.toObjectId)
                   primaryEmail == Or(c.email, Str(<<>>))
               IN loc' = IF Falsy(loc.contactEmail)
                         THEN [loc EXCEPT !.contactEmail = primaryEmail,
                                          !.contactName = c.name]
                         ELSE IF ~Falsy(primaryEmail) /\ primaryEmail # loc.contactEmail
                         THEN [loc EXCEPT !.ccEmail = primaryEmail, !.ccName = c.name]
                         ELSE loc
          ELSE loc' = loc
  /\ pc' = "upload"
  /\ UNCHANGED <<env, crm, req, res, tk, rl, peer>>

\* What POST /files answers: the new file's id and URL.
NewFileId(c) == Num(Len(c.files) + 1)
FileUrl(id) == Str(<<"https://files/">> \o Digits(id.n))

\* The stored file: "{dealName}_PO.{ext}".
StoredFile(id, dealName, fileName) ==
  [id |-> id, name |-> JsString(dealName) \o <<"_PO", ".">> \o Ext(fileName.s)]

\* The upload going on to the note without looking at the upload's status.
UploadPoUploadUnchecked ==
  /\ IsUpload("upload")
  /\ calls' = Append(calls, Call("uploadFile", req.dealId))
  /\ \E o \in Outcomes :
       /\ out' = [out EXCEPT !.upload = o]
       /\ IF o = "throw"
          THEN /\ loc' = [loc EXCEPT !.error = "uploadFile"]
               /\ crm' = crm
               /\ pc' = "catch"
          ELSE /\ crm' = IF o = "ok"
                         THEN [crm EXCEPT !.files =
                                 Append(@, StoredFile(NewFileId(crm), loc.dealName, req.fileName))]
                         ELSE crm
               /\ loc' = [loc EXCEPT !.fileId = NewFileId(crm),
                                     !.fileUrl = FileUrl(NewFileId(crm))]
               /\ pc' = "note"
  /\ UNCHANGED <<env, req, res, tk, rl, peer>>

\* upload-po.js lines 139-163: the file goes to the CRM's file store.  A
\* non-success status is thrown as an Error (line 158).
UploadPoUpload ==
  /\ IsUpload("upload")
  /\ calls' = Append(calls, Call("uploadFile", req.dealId))
  /\ \E o \in Outcomes :
       /\ out' = [out EXCEPT !.upload = o]
       /\ IF o = "ok"
          THEN /\ crm' = [crm EXCEPT !.files =
                            Append(@, StoredFile(NewFileId(crm), loc.dealName, req.fileName))]
               /\ loc' = [loc EXCEPT !.fileId = NewFileId(crm),
                                     !.fileUrl = FileUrl(NewFileId(crm))]
               /\ pc' = "note"
          ELSE /\ crm' = crm
               /\ loc' = [loc EXCEPT !.error = "uploadFile"]
               /\ pc' = "catch"
  /\ UNCHANGED <<env, req, res, tk, rl, peer>>

\* The note step treating a non-success status as fatal.
UploadPoNoteFatal ==
  /\ IsUpload("note")
  /\ calls' = Append(calls, Call("createNote", req.dealId))
  /\ \E o \in Outcomes :
       /\ out' = [out EXCEPT !.note = o]
       /\ IF o = "ok"
          THEN /\ crm' = [crm EXCEPT !.notes =
                            Append(@, [dealId |-> req.dealId, fileId |-> loc.fileId])]
               /\ loc' = loc
               /\ pc' = "patch"
          ELSE /\ crm' = crm
               /\ loc' = [loc EXCEPT !.error = "createNote"]
               /\ pc' = "catch"
  /\ UNCHANGED <<env, req, res, tk, rl, peer>>

\* The note step attempting the note a second time after a non-success
\* status.
UploadPoNoteRetrying ==
  /\ IsUpload("note")
  /\ \E o \in Outcomes :
       /\ out' = [out EXCEPT !.note = o]
       /\ calls' = IF o = "bad"
                   THEN calls \o <<Call("createNote", req.dealId),
                                   Call("createNote", req.dealId)>>
                   ELSE Append(calls, Call("createNote", req.dealId))
       /\ crm' = IF o = "ok"
                 THEN [crm EXCEPT !.notes =
                         Append(@, [dealId |-> req.dealId, fileId |-> loc.fileId])]
                 ELSE crm
       /\ loc' = IF o = "throw" THEN [loc EXCEPT !.error = "createNote"] ELSE loc
       /\ pc' = IF o = "throw" THEN "catch" ELSE "patch"
  /\ UNCHANGED <<env, req, res, tk, rl, peer>>

\* upload-po.js lines 166-181: a note engagement attaches the file to the
\* Deal.  A non-success status is logged; an exception raised by the call
\* is not caught here and reaches the handler's catch (line 218).
UploadPoNote ==
  /\ IsUpload("note")
  /\ calls' = Append(calls, Call("createNote", req.dealId))
  /\ \E o \in Outcomes :
       /\ out' = [out EXCEPT !.note = o]
       /\ CASE o = "ok" ->
                 /\ crm' = [crm EXCEPT !.notes =
                              Append(@, [dealId |-> req.dealId, fileId |-> loc.fileId])]
                 /\ loc' = loc
                 /\ pc' = "patch"
            [] o = "bad" ->
                 /\ crm' = crm
                 /\ loc' = loc
                 /\ pc' = "patch"
            [] OTHER ->
                 /\ crm' = crm
                 /\ loc' = [loc EXCEPT !.error = "createNote"]
                 /\ pc' = "catch"
  /\ UNCHANGED <<env, req, res, tk, rl, peer>>

\* The Deal's properties written in two PATCHes, the document URL in the
\* first and the file reference in the second.
UploadPoPatchFieldByField ==
  /\ IsUpload("patch")
  /\ calls' = Append(calls, Call("patchDeal", req.dealId))
  /\ IF out.patch = "half"
     THEN /\ out' = [out EXCEPT !.patch = "ok"]
          /\ crm' = [crm EXCEPT !.props.po = Str(JsString(loc.fileId))]
          /\ loc' = loc
          /\ pc' = "notify"
     ELSE \E o \in Outcomes :
            CASE o = "ok" ->
                   /\ out' = [out EXCEPT !.patch = "half"]
                   /\ crm' = [crm EXCEPT !.props =
                                [po_quote_status |-> Str(<<"PO Received">>),
                                 po_document_url |-> loc.fileUrl,
                                 po_received_date |-> Str(<<"today">>),
                                 po |-> @.po,
                                 po_status |-> Str(<<"received">>)]]
                   /\ loc' = loc
                   /\ pc' = "patch"
              [] o = "bad" ->
                   /\ out' = [out EXCEPT !.patch = o]
                   /\ crm' = crm
                   /\ loc' = loc
                   /\ pc' = "notify"
              [] OTHER ->
                   /\ out' = [out EXCEPT !.patch = o]
                   /\ crm' = crm
                   /\ loc' = [loc EXCEPT !.error = "patchDeal"]
                   /\ pc' = "catch"
  /\ UNCHANGED <<env, req, res, tk, rl, peer>>

\* upload-po.js lines 184-202: the Deal's purchase-order properties are
\* written in one PATCH.  A non-success status is logged; an exception
\* raised by the call reaches the handler's catch.
UploadPoPatch ==
  /\ IsUpload("patch")
  /\ calls' = Append(calls, Call("patchDeal", req.dealId))
  /\ \E o \in Outcomes :
       /\ out' = [out EXCEPT !.patch = o]
       /\ CASE o = "ok" ->
                 /\ crm' = [crm EXCEPT !.props =
                              [po_quote_status |-> Str(<<"PO Received">>),
                               po_document_url |-> loc.fileUrl,
                               po_received_date |-> Str(<<"today">>),
                               po |-> Str(JsString(loc.fileId)),
                               po_status |-> Str(<<"received">>)]]
                 /\ loc' = loc
                 /\ pc' = "notify"
            [] o = "bad" ->
                 /\ crm' = crm
                 /\ loc' = loc
                 /\ pc' = "notify"
            [] OTHER ->
                 /\ crm' = crm
                 /\ loc' = [loc EXCEPT !.error = "patchDeal"]
                 /\ pc' = "catch"
  /\ UNCHANGED <<env, req, res, tk, rl, peer>>

\* The notification started without being awaited, as in the
\* single-recipient variant.
UploadPoNotifyDetached ==
  /\ IsUpload("notify")
  /\ req.endpoint = "upload-po"
  /\ calls' = Append(calls, Call("notify", req.dealId))
  /\ out' = [out EXCEPT !.notify = "pending"]
  /\ loc' = [loc EXCEPT !.payload =
               [dealId |-> req.dealId, dealName |-> loc.dealName,
                fileName |-> req.fileName, fileUrl |-> loc.fileUrl,
                contactEmail |-> loc.contactEmail, contactName |-> loc.contactName,
                ccEmail |-> loc.ccEmail, ccName |-> loc.ccName,
                quoteTitle |-> loc.quoteTitle]]
  /\ pc' = "respond"
  /\ UNCHANGED <<env, crm, req, res, tk, rl, peer>>

\* The notification step letting an exception of the webhook call through.
UploadPoNotifyFatal ==
  /\ IsUpload("notify")
  /\ req.endpoint = "upload-po"
  /\ calls' = Append(calls, Call("notify", req.dealId))
  /\ \E o \in Outcomes :
       /\ out' = [out EXCEPT !.notify = o]
       /\ IF o = "throw"
          THEN /\ loc' = [loc EXCEPT !.error = "notify"]
               /\ pc' = "catch"
          ELSE /\ loc' = loc
               /\ pc' = "respond"
  /\ UNCHANGED <<env, crm, req, res, tk, rl, peer>>

\* upload-po.js lines 205-214: the notification webhook is awaited; an
\* exception it raises is caught and logged.
UploadPoNotify ==
  /\ IsUpload("notify")
  /\ req.endpoint = "upload-po"
  /\ calls' = Append(calls, Call("notify", req.dealId))
  /\ \E o \in Outcomes : out' = [out EXCEPT !.notify = o]
  /\ loc' = [loc EXCEPT !.payload =
               [dealId |-> req.dealId, dealName |-> loc.dealName,
                fileName |-> req.fileName, fileUrl |-> loc.fileUrl,
                contactEmail |-> loc.contactEmail, contactName |-> loc.contactName,
                ccEmail |-> loc.ccEmail, ccName |-> loc.ccName,
                quoteTitle |-> loc.quoteTitle]]
  /\ pc' = "respond"
  /\ UNCHANGED <<env, crm, req, res, tk, rl, peer>>

\* upload-po.js line 216: the success response.
UploadPoRespond ==
  /\ IsUpload("respond")
  /\ res' = [status |-> 200, body |-> [success |-> TRUE, fileUrl |-> loc.fileUrl]]
  /\ pc' = "done"
  /\ UNCHANGED <<env, crm, req, loc, out, calls, tk, rl, peer>>

\* upload-po.js lines 218-220 and reportError (lines 3-16): the error is
\* reported to the alerting sink; the report is awaited and whatever it
\* raises is swallowed.
UploadPoCatch ==
  /\ IsUpload("catch")
  /\ calls' = Append(calls, Call("errorAlert", req.dealId))
  /\ out' = [out EXCEPT !.report = "pending"]
  /\ pc' = "report"
  /\ UNCHANGED <<env, crm, req, loc, res, tk, rl, peer>>

\* The failure answered as a client error.
UploadPoFailClientError ==
  /\ IsUpload("fail")
  /\ res' = [status |-> 400, body |-> [error |-> "Upload failed", details |-> loc.error]]
  /\ pc' = "done"
  /\ UNCHANGED <<env, crm, req, loc, out, calls, tk, rl, peer>>

\* upload-po.js line 221: the failure response.
UploadPoFail ==
  /\ IsUpload("fail")
  /\ res' = [status |-> 500, body |-> [error |-> "Upload failed", details |-> loc.error]]
  /\ pc' = "done"
  /\ UNCHANGED <<env, crm, req, loc, out, calls, tk, rl, peer>>

\* api/deal.js lines 213-235: the first associated contact is the single
\* recipient.  A failure here is swallowed (line 235).
UploadSingleFetchAssoc ==
  /\ IsUpload("fetchAssoc")
  /\ req.endpoint = "upload-po-single"
  /\ calls' = Append(calls, Call("getContactAssocs", req.dealId))
  /\ \E o \in Outcomes :
       /\ out' = [out EXCEPT !.assoc = o]
       /\ IF o = "ok"
          THEN \E allAssocs \in ContactAssocLists :
                 LET contactIds == [i \in DOMAIN allAssocs |-> allAssocs[i].toObjectId]
                 IN IF Len(contactIds) > 0
                    THEN /\ loc' = [loc EXCEPT !.primaryAssoc = allAssocs[1]]
                         /\ pc' = "fetchContact"
                    ELSE /\ loc' = loc
                         /\ pc' = "upload"
          ELSE /\ loc' = loc
               /\ pc' = "upload"
  /\ UNCHANGED <<env, crm, req, res, tk, rl, peer>>

\* api/deal.js lines 224-233: the recipient's email and name.
UploadSingleFetchContact ==
  /\ IsUpload("fetchContact")
  /\ calls' = Append(calls, Call("getContact", Num(loc.primaryAssoc.toObjectId)))
  /\ \E o \in Outcomes :
       /\ out' = [out EXCEPT !.primary = o]
       /\ IF o = "ok"
          THEN LET c == ContactRecord(loc.primaryAssoc.toObjectId)
               IN loc' = [loc EXCEPT !.contactEmail = Or(c.email, Str(<<>>)),
                                     !.contactName = c.name]
          ELSE loc' = loc
  /\ pc' = "upload"
  /\ UNCHANGED <<env, crm, req, res, tk, rl, peer>>

\* api/deal.js lines 303-309: the notification webhook is called and not
\* awaited; the handler goes on to its response at once.
UploadSingleNotify ==
  /\ IsUpload("notify")
  /\ req.endpoint = "upload-po-single"
  /\ calls' = Append(calls, Call("notify", req.dealId))
  /\ out' = [out EXCEPT !.notify = "pending"]
  /\ loc' = [loc EXCEPT !.payload =
               [dealId |-> req.dealId, dealName |-> loc.dealName,
                fileName |-> req.fileName, fileUrl |-> loc.fileUrl,
                contactEmail |-> loc.contactEmail, contactName |-> loc.contactName,
                quoteTitle |-> loc.quoteTitle]]
  /\ pc' = "respond"
  /\ UNCHANGED <<env, crm, req, res, tk, rl, peer>>

\* api/deal.js line 309: the notification settles, before or after the
\* response; a rejection is swallowed by .catch(() => {}).
UploadSingleNotifySettled ==
  /\ req.endpoint = "upload-po-single"
  /\ out.notify = "pending"
  /\ \E o \in Outcomes : out' = [out EXCEPT !.notify = o]
  /\ UNCHANGED <<env, crm, req, pc, loc, calls, res, tk, rl, peer>>

UploadPoNext ==
  \/ UploadSingleFetchAssoc
  \/ UploadSingleFetchContact
  \/ UploadSingleNotify
  \/ UploadSingleNotifySettled
  \/ UploadPoReceive
  \/ UploadPoValidate
  \/ UploadPoFetchDeal
  \/ UploadPoFetchAssoc
  \/ UploadPoFetchPayer
  \/ UploadPoFetchPrimary
  \/ UploadPoUpload
  \/ UploadPoNote
  \/ UploadPoPatch
  \/ UploadPoNotify
  \/ UploadPoRespond
  \/ UploadPoCatch
  \/ UploadPoFail

-----------------------------------------------------------------------------
(* The token-gated read endpoint, po-quote-review.                         *)

RECURSIVE DigitPrefix(_)
\* The leading decimal digits of a string.
DigitPrefix(s) ==
  IF s # <<>> /\ Code(Head(s)) >= 48 /\ Code(Head(s)) <= 57
  THEN <<Head(s)>> \o DigitPrefix(Tail(s))
  ELSE <<>>

RECURSIVE DigitsValue(_, _)
DigitsValue(s, acc) ==
  IF s = <<>> THEN acc ELSE DigitsValue(Tail(s), acc * 10 + (Code(Head(s)) - 48))

-----------------------------------------------------------------------------
(* JavaScript numbers.  parseFloat, parseInt, + and * work on IEEE 754      *)
(* doubles: a value is m * 2^e with m a natural number of at most 53 bits, *)
(* and every result is rounded to the nearest such value, ties to the even *)
(* m.  m is kept as a sequence of bits, most significant first, stripped   *)
(* of its trailing zeros, so that equal values are equal records; zero has *)
(* no bits.  Signs, subnormals and infinities do not arise on the prices   *)
(* and quantities the CRM holds here.                                      *)

\* The bits of a double's significand.
MantissaBits == 53

Dbl(m, e) == [k |-> "double", m |-> m, e |-> e]
Zero == Dbl(<<>>, 0)

Zeros(n) == [i \in 1..n |-> 0]

\* A natural number below 2^31 in binary.
IntBits(n) ==
  LET len == CHOOSE l \in 0..31 : n < 2^l /\ \A j \in 0..(l - 1) : n >= 2^j
  IN [p \in 1..len |-> (n \div 2^(len - p)) % 2]

\* A binary natural without its leading zeros.
StripLeading(b) ==
  IF \A i \in DOMAIN b : b[i] = 0 THEN <<>>
  ELSE LET first == CHOOSE i \in DOMAIN b : b[i] = 1 /\ \A j \in 1..(i - 1) : b[j] = 0
       IN SubSeq(b, first, Len(b))

RECURSIVE AddBoth(_, _, _)
\* a + b and a + b + 1 on two naturals of n bits each: n + 1 bits, the
\* first being the carry out.  The two halves are added on their own, the
\* high half for either carry, and the low half's carry selects.
AddBoth(a, b, n) ==
  IF n = 1
  THEN [s0 |-> <<(a[1] + b[1]) \div 2, (a[1] + b[1]) % 2>>,
        s1 |-> <<(a[1] + b[1] + 1) \div 2, (a[1] + b[1] + 1) % 2>>]
  ELSE LET h == n \div 2
           low == AddBoth(SubSeq(a, n - h + 1, n), SubSeq(b, n - h + 1, n), h)
           high == AddBoth(SubSeq(a, 1, n - h), SubSeq(b, 1, n - h), n - h)
       IN [s0 |-> (IF low.s0[1] = 1 THEN high.s1 ELSE high.s0) \o Tail(low.s0),
           s1 |-> (IF low.s1[1] = 1 THEN high.s1 ELSE high.s0) \o Tail(low.s1)]

\* a + b + c on binary naturals, c the carry in.
BitsAdd(a, b, c) ==
  LET n == IF Len(a) > Len(b) THEN Len(a) ELSE Len(b)
      both == AddBoth(Zeros(n - Len(a)) \o a, Zeros(n - Len(b)) \o b, n)
  IN IF n = 0 THEN (IF c = 1 THEN <<1>> ELSE <<>>)
     ELSE StripLeading(IF c = 1 THEN both.s1 ELSE both.s0)

RECURSIVE BitsMul(_, _)
\* a * b on binary naturals: b is split in two halves.
BitsMul(a, b) ==
  IF b = <<>> \/ a = <<>> THEN <<>>
  ELSE IF Len(b) = 1 THEN (IF b[1] = 1 THEN a ELSE <<>>)
  ELSE LET h == Len(b) \div 2
           high == BitsMul(a, SubSeq(b, 1, Len(b) - h))
           low == BitsMul(a, SubSeq(b, Len(b) - h + 1, Len(b)))
       IN BitsAdd(IF high = <<>> THEN high ELSE high \o Zeros(h), low, 0)

\* m * 2^e with the leading zeros of m dropped and its trailing zeros moved
\* into e.
Canonical(m, e) ==
  IF \A i \in DOMAIN m : m[i] = 0 THEN Zero
  ELSE LET first == CHOOSE i \in DOMAIN m : m[i] = 1 /\ \A j \in 1..(i - 1) : m[j] = 0
           last == CHOOSE i \in DOMAIN m : m[i] = 1 /\ \A j \in (i + 1)..Len(m) : m[j] = 0
       IN Dbl(SubSeq(m, first, last), e + (Len(m) - last))

\* The double nearest to m * 2^e (m without leading zeros), ties to even;
\* sticky tells that the exact value lies above m * 2^e by less than 2^e.
Round(m, e, sticky) ==
  IF Len(m) <= MantissaBits THEN Canonical(m, e)
  ELSE LET kept == SubSeq(m, 1, MantissaBits)
           rest == SubSeq(m, MantissaBits + 1, Len(m))
           more == sticky \/ \E i \in 2..Len(rest) : rest[i] = 1
           up == rest[1] = 1 /\ (more \/ kept[MantissaBits] = 1)
       IN Canonical(IF up THEN BitsAdd(kept, <<1>>, 0) ELSE kept, e + Len(rest))

\* x + y
DblAdd(x, y) ==
  IF x.m = <<>> THEN y
  ELSE IF y.m = <<>> THEN x
  ELSE LET e == IF x.e < y.e THEN x.e ELSE y.e
       IN Round(BitsAdd(x.m \o Zeros(x.e - e), y.m \o Zeros(y.e - e), 0), e, FALSE)

\* x * y
DblMul(x, y) ==
  IF x.m = <<>> \/ y.m = <<>> THEN Zero
  ELSE Round(BitsMul(x.m, y.m), x.e + y.e, FALSE)

RECURSIVE Pow2Mod(_, _)
\* 2^i modulo d.
Pow2Mod(i, d) ==
  IF i <= 16 THEN (2^i) % d ELSE (Pow2Mod(i - 16, d) * ((2^16) % d)) % d

\* The i-th bit after the binary point of r / d (r < d), and what is left
\* of r after it.
FracRem(r, d, i) == (r * Pow2Mod(i, d)) % d
FracBit(r, d, i) == IF 2 * FracRem(r, d, i - 1) >= d THEN 1 ELSE 0

\* The double nearest to n / d: the binary expansion is taken two bits
\* past the significand and rounded.
DecimalToDouble(n, d) ==
  LET whole == IntBits(n \div d)
      r == n % d
      lead == IF whole # <<>> \/ r = 0 THEN 0
              ELSE (CHOOSE i \in 1..32 : FracBit(r, d, i) = 1
                                         /\ \A j \in 1..(i - 1) : FracBit(r, d, j) = 0) - 1
      len == IF r = 0 THEN 0 ELSE lead + (MantissaBits + 2) - Len(whole)
      frac == [i \in 1..len |-> FracBit(r, d, i)]
  IN Round(StripLeading(whole \o frac), 0 - len, FracRem(r, d, len) # 0)

RECURSIVE Pow10(_)
Pow10(n) == IF n = 0 THEN 1 ELSE 10 * Pow10(n - 1)

\* parseFloat(v) on an unsigned decimal text: the number its leading
\* digits, with a fraction if one follows, spell; NaN when there are none or
\* the field is undefined or null.
ParseFloat(v) ==
  IF v.k # "string" THEN NaN
  ELSE LET whole == DigitPrefix(v.s)
           after == SubSeq(v.s, Len(whole) + 1, Len(v.s))
           frac == IF after # <<>> /\ Head(after) = "." THEN DigitPrefix(Tail(after))
                   ELSE <<>>
       IN IF whole = <<>> /\ frac = <<>> THEN NaN
          ELSE DecimalToDouble(DigitsValue(whole \o frac, 0), Pow10(Len(frac)))

\* parseInt(v): the integer its leading digits spell, NaN when there are
\* none.
ParseInt(v) ==
  IF v.k # "string" \/ DigitPrefix(v.s) = <<>> THEN NaN
  ELSE DecimalToDouble(DigitsValue(DigitPrefix(v.s), 0), 1)

\* What POST /objects/line_items/batch/read answers for an id.
LineItemRecord(id) ==
  CASE id = 1 -> [id |-> Str(Digits(id)), name |-> Str(<<"Jacket">>),
                  price |-> Str(<<"1", "0">>), quantity |-> Str(<<"2">>),
                  amount |-> Str(<<"0">>), description |-> Str(<<"Navy">>)]
    [] id = 2 -> [id |-> Str(Digits(id)), name |-> Undefined,
                  price |-> Str(<<"5">>), quantity |-> Str(<<"1">>),
                  amount |-> Str(<<"7">>), description |-> Undefined]
    [] id = 3 -> [id |-> Str(Digits(id)), name |-> Str(<<"Rush">>),
                  price |-> Undefined, quantity |-> Str(<<"a", "b", "c">>),
                  amount |-> Undefined, description |-> Undefined]
    [] id = 4 -> [id |-> Str(Digits(id)), name |-> Str(<<"Patch">>),
                  price |-> Str(<<"0", ".", "1">>), quantity |-> Str(<<"1">>),
                  amount |-> Str(<<"0", ".", "1">>), description |-> Undefined]
    [] id = 5 -> [id |-> Str(Digits(id)), name |-> Str(<<"Thread">>),
                  price |-> Str(<<"0", ".", "2", "0">>), quantity |-> Str(<<"0">>),
                  amount |-> Null, description |-> Undefined]
    [] OTHER -> [id |-> Str(Digits(id)), name |-> Str(<<"Label">>),
                 price |-> Str(<<"0", ".", "1">>), quantity |-> Str(<<"3">>),
                 amount |-> Str(<<"0", ".", "3">>), description |-> Undefined]

\* What the CRM answers to GET .../associations/line_items: the ids.
LineItemIdLists == { <<>>, <<1, 2>>, <<2, 1>>, <<3>>, <<4, 5, 6>>, <<6, 5, 4>> }

\* The batch result reshaped, with field coercion (part_002 lines 129-135).
CoerceLineItem(item) ==
  [id |-> item.id,
   name |-> Or(item.name, Str(<<"Item">>)),
   price |-> Or(ParseFloat(item.price), Zero),
   quantity |-> Or(ParseInt(item.quantity), DecimalToDouble(1, 1)),
   amount |-> Or(ParseFloat(item.amount), Zero)]

RECURSIVE Sum(_, _)
\* lineItems.reduce((sum, item) => sum + (item.amount || item.price * item.quantity), sum)
Sum(sum, lineItems) ==
  IF lineItems = <<>> THEN sum
  ELSE Sum(DblAdd(sum, Or(Head(lineItems).amount,
                          DblMul(Head(lineItems).price, Head(lineItems).quantity))),
           Tail(lineItems))

\* The total of the line items, summed from 0 in the list's order.
Total(lineItems) == Sum(Zero, lineItems)

\* What the CRM answers to the review's Deal fetch.
ReviewDealRecords ==
  { [dealname |-> Str(<<"Acme">>), po_quote_title |-> Str(<<"Uniforms">>),
     po_quote_verbiage |-> Str(<<"{\"terms\":\"net30\"}">>)],
    [dealname |-> Undefined, po_quote_title |-> Undefined,
     po_quote_verbiage |-> Str(<<"not json">>)],
    [dealname |-> Str(<<"Acme">>), po_quote_title |-> Undefined,
     po_quote_verbiage |-> Undefined] }

\* lines 197-200: JSON.parse(verbiage || '{}'), {} when it does not parse.
ParseVerbiage(v) ==
  IF Falsy(v) \/ v = Str(<<"not json">>) THEN [object |-> <<>>]
  ELSE [object |-> v.s]

\* The synchronous checks of the read endpoint, up to its first await.
ReviewPrelude(e, r) ==
  IF r.method = "OPTIONS" THEN Respond(200, NoBody)
  ELSE IF Falsy(r.dealId) THEN Respond(400, ErrorBody("dealId is required"))
  ELSE IF Falsy(r.token) THEN Respond(403, ErrorBody("Access denied"))
  ELSE IF ValidateToken(e.secret, r.dealId, r.token) = "throw" THEN [kind |-> "throw"]
  ELSE IF ValidateToken(e.secret, r.dealId, r.token) = "false"
    THEN Respond(403, ErrorBody("Invalid or expired link"))
  ELSE IF Falsy(e.hubspotToken)
    THEN Respond(500, ErrorBody("HubSpot token not configured"))
  ELSE [kind |-> "continue"]

ReviewLocInit ==
  [deal |-> Undefined, ids |-> <<>>, lineItems |-> <<>>,
   payerAssoc |-> Undefined, primaryAssoc |-> Undefined,
   payerContact |-> Null, primaryContact |-> Null, error |-> "none"]

\* The query strings a caller of the read endpoint may send.
ReviewDealIds == {Undefined, Str(<<"1", "0", "1">>), Str(<<"1", "0", "2">>)}

ReviewRequests ==
  { [endpoint |-> "po-quote-review", method |-> "OPTIONS",
     dealId |-> Undefined, token |-> Undefined] }
  \cup
  UNION { { [endpoint |-> "po-quote-review", method |-> "GET",
             dealId |-> d, token |-> t] : t \in RequestTokens(d) } :
          d \in ReviewDealIds }

\* A request reaches the read endpoint.
ReviewReceive ==
  /\ pc = "idle"
  /\ \E r \in ReviewRequests : req' = r
  /\ pc' = "prelude"
  /\ loc' = ReviewLocInit
  /\ UNCHANGED <<env, crm, out, calls, res, tk, rl, peer>>

IsReview(at) == req.endpoint = "po-quote-review" /\ pc = at

\* lines 77-91: CORS headers, dealId, token, token check, configuration.
ReviewValidate ==
  /\ IsReview("prelude")
  /\ LET p == ReviewPrelude(env, req)
     IN CASE p.kind = "respond" ->
               /\ res' = [status |-> p.status, body |-> p.body]
               /\ pc' = "done"
          [] p.kind = "throw" ->
               /\ res' = res
               /\ pc' = "crashed"
          [] OTHER ->
               /\ res' = res
               /\ pc' = "fetchDeal"
  /\ UNCHANGED <<env, crm, req, loc, out, calls, tk, rl, peer>>

\* lines 100-105: the Deal with its purchase-order properties.
ReviewFetchDeal ==
  /\ IsReview("fetchDeal")
  /\ calls' = Append(calls, Call("getDeal", req.dealId))
  /\ \E o \in Outcomes :
       /\ out' = [out EXCEPT !.deal = o]
       /\ CASE o = "ok" ->
                 \E deal \in ReviewDealRecords :
                   /\ loc' = [loc EXCEPT !.deal =
                                [id |-> Str(JsString(req.dealId)), properties |-> deal]]
                   /\ res' = res
                   /\ pc' = "fetchLineAssoc"
            [] o = "bad" ->
                 /\ res' = [status |-> 404, body |-> ErrorBody("Deal not found")]
                 /\ loc' = loc
                 /\ pc' = "done"
            [] OTHER ->
                 /\ loc' = [loc EXCEPT !.error = "getDeal"]
                 /\ res' = res
                 /\ pc' = "catch"
  /\ UNCHANGED <<env, crm, req, tk, rl, peer>>

\* lines 108-116: the ids of the Deal's line items.
ReviewFetchLineAssoc ==
  /\ IsReview("fetchLineAssoc")
  /\ calls' = Append(calls, Call("getLineItemAssocs", req.dealId))
  /\ \E o \in Outcomes :
       /\ out' = [out EXCEPT !.lineAssoc = o]
       /\ CASE o = "ok" ->
                 \E ids \in LineItemIdLists :
                   /\ loc' = [loc EXCEPT !.ids = ids]
                   /\ pc' = IF Len(ids) > 0 THEN "batchRead" ELSE "fetchAssoc"
            [] o = "bad" ->
                 /\ loc' = loc
                 /\ pc' = "fetchAssoc"
            [] OTHER ->
                 /\ loc' = [loc EXCEPT !.error = "getLineItemAssocs"]
                 /\ pc' = "catch"
  /\ UNCHANGED <<env, crm, req, res, tk, rl, peer>>

\* lines 117-136: the line items' details, read in one batch.
ReviewBatchRead ==
  /\ IsReview("batchRead")
  /\ calls' = Append(calls, Call("batchReadLineItems", req.dealId))
  /\ \E o \in Outcomes :
       /\ out' = [out EXCEPT !.batch = o]
       /\ CASE o = "ok" ->
                 /\ loc' = [loc EXCEPT !.lineItems =
                              [i \in DOMAIN loc.ids |->
                                 CoerceLineItem(LineItemRecord(loc.ids[i]))]]
                 /\ pc' = "fetchAssoc"
            [] o = "bad" ->
                 /\ loc' = loc
                 /\ pc' = "fetchAssoc"
            [] OTHER ->
                 /\ loc' = [loc EXCEPT !.error = "batchReadLineItems"]
                 /\ pc' = "catch"
  /\ UNCHANGED <<env, crm, req, res, tk, rl, peer>>

\* lines 143-155: the Deal's contact associations; payer and primary are
\* picked by label.
ReviewFetchAssoc ==
  /\ IsReview("fetchAssoc")
  /\ calls' = Append(calls, Call("getContactAssocs", req.dealId))
  /\ \E o \in Outcomes :
       /\ out' = [out EXCEPT !.assoc = o]
       /\ CASE o = "ok" ->
                 \E allAssocs \in ContactAssocLists :
                   /\ loc' = [loc EXCEPT !.payerAssoc = PayerAssoc(allAssocs),
                                         !.primaryAssoc = PrimaryAssoc(allAssocs)]
                   /\ pc' = IF PayerAssoc(allAssocs) # Undefined THEN "fetchPayer"
                            ELSE IF PrimaryAssoc(allAssocs) # Undefined THEN "fetchPrimary"
                            ELSE "respond"
            [] o = "bad" ->
                 /\ loc' = loc
                 /\ pc' = "respond"
            [] OTHER ->
                 /\ loc' = [loc EXCEPT !.error = "getContactAssocs"]
                 /\ pc' = "catch"
  /\ UNCHANGED <<env, crm, req, res, tk, rl, peer>>

\* lines 158-171: the payer's details.
ReviewFetchPayer ==
  /\ IsReview("fetchPayer")
  /\ calls' = Append(calls, Call("getContact", Num(loc.payerAssoc.toObjectId)))
  /\ \E o \in Outcomes :
       /\ out' = [out EXCEPT !.payer = o]
       /\ CASE o = "ok" ->
                 /\ loc' = [loc EXCEPT !.payerContact =
                              ContactRecord(loc.payerAssoc.toObjectId)]
                 /\ pc' = IF loc.primaryAssoc # Undefined THEN "fetchPrimary" ELSE "respond"
            [] o = "bad" ->
                 /\ loc' = loc
                 /\ pc' = IF loc.primaryAssoc # Undefined THEN "fetchPrimary" ELSE "respond"
            [] OTHER ->
                 /\ loc' = [loc EXCEPT !.error = "getContact"]
                 /\ pc' = "catch"
  /\ UNCHANGED <<env, crm, req, res, tk, rl, peer>>

\* lines 174-187: the primary contact's details.
ReviewFetchPrimary ==
  /\ IsReview("fetchPrimary")
  /\ calls' = Append(calls, Call("getContact", Num(loc.primaryAssoc.toObjectId)))
  /\ \E o \in Outcomes :
       /\ out' = [out EXCEPT !.primary = o]
       /\ CASE o = "ok" ->
                 /\ loc' = [loc EXCEPT !.primaryContact =
                              ContactRecord(loc.primaryAssoc.toObjectId)]
                 /\ pc' = "respond"
            [] o = "bad" ->
                 /\ loc' = loc
                 /\ pc' = "respond"
            [] OTHER ->
                 /\ loc' = [loc EXCEPT !.error = "getContact"]
                 /\ pc' = "catch"
  /\ UNCHANGED <<env, crm, req, res, tk, rl, peer>>

\* lines 190-220: the total, the expiration date, the verbiage and the
\* view model.
ReviewRespond ==
  /\ IsReview("respond")
  /\ res' = [status |-> 200,
             body |-> [dealId |-> loc.deal.id,
                       dealName |-> Or(loc.deal.properties.dealname, Str(<<>>)),
                       total |-> Total(loc.lineItems),
                       lineItems |-> loc.lineItems,
                       primaryContact |-> loc.primaryContact,
                       payerContact |-> loc.payerContact,
                       expirationDate |-> Str(<<"now+120d">>),
                       title |-> Or(loc.deal.properties.po_quote_title, Str(<<>>)),
                       verbiage |-> ParseVerbiage(loc.deal.properties.po_quote_verbiage),
                       poDocumentUrl |-> Or(crm.props.po_document_url, Null),
                       poReceivedDate |-> Or(crm.props.po_received_date, Null)]]
  /\ pc' = "done"
  /\ UNCHANGED <<env, crm, req, loc, out, calls, tk, rl, peer>>

\* lines 222-224 and reportError (lines 47-60): the error is reported to
\* the alerting sink, awaited, whatever it raises swallowed.
ReviewCatch ==
  /\ IsReview("catch")
  /\ calls' = Append(calls, Call("errorAlert", req.dealId))
  /\ out' = [out EXCEPT !.report = "pending"]
  /\ pc' = "report"
  /\ UNCHANGED <<env, crm, req, loc, res, tk, rl, peer>>

\* line 225: the failure response.
ReviewFail ==
  /\ IsReview("fail")
  /\ res' = [status |-> 500,
             body |-> [error |-> "Failed to fetch data", details |-> loc.error]]
  /\ pc' = "done"
  /\ UNCHANGED <<env, crm, req, loc, out, calls, tk, rl, peer>>

ReviewNext ==
  \/ ReviewReceive
  \/ ReviewValidate
  \/ ReviewFetchDeal
  \/ ReviewFetchLineAssoc
  \/ ReviewBatchRead
  \/ ReviewFetchAssoc
  \/ ReviewFetchPayer
  \/ ReviewFetchPrimary
  \/ ReviewRespond
  \/ ReviewCatch
  \/ ReviewFail

-----------------------------------------------------------------------------
(* The line-item section the po-quote and /api/deal handlers share         *)
(* (part_000 lines 42-73, part_001 lines 108-146, api/deal.js 78-116):     *)
(* the association is fetched, and the details are read in one batch when  *)
(* there is an id.  Every way the section can go is a record: the calls    *)
(* made, their outcomes, the line items, and the call that raised.         *)

\* The reshaped batch result of the /api/deal handlers, which also carry
\* the description.
CoerceLineItemDescribed(item) ==
  [id |-> item.id,
   name |-> Or(item.name, Str(<<"Item">>)),
   price |-> Or(ParseFloat(item.price), Zero),
   quantity |-> Or(ParseInt(item.quantity), DecimalToDouble(1, 1)),
   amount |-> Or(ParseFloat(item.amount), Zero),
   description |-> Or(item.description, Str(<<>>))]

\* The section raising on a non-success status of the association fetch.
LineItemsSectionStrict(id, described) ==
  { [calls |-> <<Call("getLineItemAssocs", id)>>, lineAssoc |-> o, batch |-> "none",
     ids |-> <<>>, lineItems |-> <<>>,
     error |-> IF o = "ok" THEN "none" ELSE "getLineItemAssocs"] : o \in Outcomes }

LineItemsSection(id, described) ==
  LET assoc == Call("getLineItemAssocs", id)
      batch == Call("batchReadLineItems", id)
      Way(cs, a, b, ids, items, raised) ==
        [calls |-> cs, lineAssoc |-> a, batch |-> b, ids |-> ids,
         lineItems |-> items, error |-> raised]
  IN { Way(<<assoc>>, "bad", "none", <<>>, <<>>, "none"),
       Way(<<assoc>>, "throw", "none", <<>>, <<>>, "getLineItemAssocs"),
       Way(<<assoc>>, "ok", "none", <<>>, <<>>, "none") }
     \cup { Way(<<assoc, batch>>, "ok", "bad", ids, <<>>, "none") :
              ids \in LineItemIdLists \ {<<>>} }
     \cup { Way(<<assoc, batch>>, "ok", "throw", ids, <<>>, "batchReadLineItems") :
              ids \in LineItemIdLists \ {<<>>} }
     \cup { Way(<<assoc, batch>>, "ok", "ok", ids,
                [i \in DOMAIN ids |->
                   IF described THEN CoerceLineItemDescribed(LineItemRecord(ids[i]))
                   ELSE CoerceLineItem(LineItemRecord(ids[i]))],
                "none") : ids \in LineItemIdLists \ {<<>>} }

-----------------------------------------------------------------------------
(* The po-quote read endpoint (part_000).                                  *)

\* What the CRM answers to the po-quote Deal fetch.
PoQuoteDealRecords ==
  { [dealname |-> Str(<<"Acme">>), amount |-> Str(<<"2", "5", "0">>),
     po_quote_title |-> Str(<<"Uniforms">>), po_team_size |-> Str(<<"1", "2">>)],
    [dealname |-> Undefined, amount |-> Null, po_quote_title |-> Undefined,
     po_team_size |-> Undefined],
    [dealname |-> Str(<<"Acme">>), amount |-> Str(<<"0">>),
     po_quote_title |-> Undefined, po_team_size |-> Str(<<"0">>)] }

\* What the CRM answers to GET .../associations/quotes: the ids.
QuoteIdLists == { <<>>, <<7>>, <<8, 7>> }

\* What the CRM answers to GET /objects/quotes/{id}.
QuoteRecord(id) ==
  [id |-> Str(Digits(id)), title |-> Str(<<"Quote">>), status |-> Str(<<"DRAFT">>)]

\* The checks of the po-quote and /api/deal handlers without the one for
\* the CRM token.
ReadPreludeNoConfigurationCheck(e, r) ==
  IF r.method = "OPTIONS" THEN Respond(200, NoBody)
  ELSE IF Falsy(r.dealId) THEN Respond(400, ErrorBody("dealId is required"))
  ELSE [kind |-> "continue"]

\* The synchronous checks of the po-quote and /api/deal handlers.
ReadPrelude(e, r) ==
  IF r.method = "OPTIONS" THEN Respond(200, NoBody)
  ELSE IF Falsy(r.dealId) THEN Respond(400, ErrorBody("dealId is required"))
  ELSE IF Falsy(e.hubspotToken)
    THEN Respond(500, ErrorBody("HubSpot token not configured"))
  ELSE [kind |-> "continue"]

ReadLocInit ==
  [deal |-> Null, hubspotDealId |-> Undefined, ids |-> <<>>, lineItems |-> <<>>,
   quoteIds |-> <<>>, existingQuote |-> Null, primaryAssoc |-> Undefined, primaryContact |-> Null,
   contactAssocs |-> <<>>, hasPayer |-> FALSE, error |-> "none"]

\* The query strings a caller of the po-quote and /api/deal handlers may
\* send.
ReadRequests(endpoint) ==
  { [endpoint |-> endpoint, method |-> m, dealId |-> d, token |-> Undefined] :
      m \in {"OPTIONS", "GET"}, d \in {Undefined, Str(<<"1", "0", "1">>)} }

PoQuoteReceive ==
  /\ pc = "idle"
  /\ \E r \in ReadRequests("po-quote") : req' = r
  /\ pc' = "prelude"
  /\ loc' = ReadLocInit
  /\ UNCHANGED <<env, crm, out, calls, res, tk, rl, peer>>

IsPoQuote(at) == req.endpoint = "po-quote" /\ pc = at

\* part_000 lines 17-26.
PoQuoteValidate ==
  /\ IsPoQuote("prelude")
  /\ LET p == ReadPrelude(env, req)
     IN IF p.kind = "respond"
        THEN /\ res' = [status |-> p.status, body |-> p.body]
             /\ pc' = "done"
        ELSE /\ res' = res
             /\ pc' = "fetchDeal"
  /\ UNCHANGED <<env, crm, req, loc, out, calls, tk, rl, peer>>

\* part_000 lines 35-40.
PoQuoteFetchDeal ==
  /\ IsPoQuote("fetchDeal")
  /\ calls' = Append(calls, Call("getDeal", req.dealId))
  /\ \E o \in Outcomes :
       /\ out' = [out EXCEPT !.deal = o]
       /\ CASE o = "ok" ->
                 \E deal \in PoQuoteDealRecords :
                   /\ loc' = [loc EXCEPT !.deal =
                                [id |-> Str(JsString(req.dealId)), properties |-> deal]]
                   /\ res' = res
                   /\ pc' = "lineItems"
            [] o = "bad" ->
                 /\ res' = [status |-> 404, body |-> ErrorBody("Deal not found")]
                 /\ loc' = loc
                 /\ pc' = "done"
            [] OTHER ->
                 /\ loc' = [loc EXCEPT !.error = "getDeal"]
                 /\ res' = res
                 /\ pc' = "catch"
  /\ UNCHANGED <<env, crm, req, tk, rl, peer>>

\* part_000 lines 42-73.
PoQuoteLineItems ==
  /\ IsPoQuote("lineItems")
  /\ \E w \in LineItemsSection(req.dealId, FALSE) :
       /\ calls' = calls \o w.calls
       /\ out' = [out EXCEPT !.lineAssoc = w.lineAssoc, !.batch = w.batch]
       /\ loc' = [loc EXCEPT !.ids = w.ids, !.lineItems = w.lineItems, !.error = w.error]
       /\ pc' = IF w.error = "none" THEN "quote" ELSE "catch"
  /\ UNCHANGED <<env, crm, req, res, tk, rl, peer>>

\* part_000 lines 75-100: the first associated quote, if any.
PoQuoteQuote ==
  /\ IsPoQuote("quote")
  /\ \E oa \in Outcomes :
       CASE oa = "ok" ->
              \E quoteIds \in QuoteIdLists :
                IF Len(quoteIds) > 0
                THEN /\ calls' = calls \o <<Call("getQuoteAssocs", req.dealId),
                                            Call("getQuote", Num(quoteIds[1]))>>
                     /\ \E o \in Outcomes :
                          /\ out' = [out EXCEPT !.quoteAssoc = oa, !.quote = o]
                          /\ CASE o = "ok" ->
                                    /\ loc' = [loc EXCEPT !.quoteIds = quoteIds,
                                                          !.existingQuote =
                                                            QuoteRecord(quoteIds[1])]
                                    /\ pc' = "contact"
                               [] o = "bad" ->
                                    /\ loc' = [loc EXCEPT !.quoteIds = quoteIds]
                                    /\ pc' = "contact"
                               [] OTHER ->
                                    /\ loc' = [loc EXCEPT !.quoteIds = quoteIds,
                                                          !.error = "getQuote"]
                                    /\ pc' = "catch"
                ELSE /\ calls' = Append(calls, Call("getQuoteAssocs", req.dealId))
                     /\ out' = [out EXCEPT !.quoteAssoc = oa]
                     /\ loc' = loc
                     /\ pc' = "contact"
         [] oa = "bad" ->
              /\ calls' = Append(calls, Call("getQuoteAssocs", req.dealId))
              /\ out' = [out EXCEPT !.quoteAssoc = oa]
              /\ loc' = loc
              /\ pc' = "contact"
         [] OTHER ->
              /\ calls' = Append(calls, Call("getQuoteAssocs", req.dealId))
              /\ out' = [out EXCEPT !.quoteAssoc = oa]
              /\ loc' = [loc EXCEPT !.error = "getQuoteAssocs"]
              /\ pc' = "catch"
  /\ UNCHANGED <<env, crm, req, res, tk, rl, peer>>

\* part_000 lines 102-127: the primary contact, picked by label or else
\* the first one.
PoQuoteContact ==
  /\ IsPoQuote("contact")
  /\ \E oa \in Outcomes :
       CASE oa = "ok" ->
              \E allAssocs \in ContactAssocLists :
                IF PrimaryAssoc(allAssocs) # Undefined
                THEN /\ calls' = calls \o
                          <<Call("getContactAssocs", req.dealId),
                            Call("getContact", Num(PrimaryAssoc(allAssocs).toObjectId))>>
                     /\ \E o \in Outcomes :
                          /\ out' = [out EXCEPT !.assoc = oa, !.primary = o]
                          /\ CASE o = "ok" ->
                                    /\ loc' = [loc EXCEPT
                                                 !.primaryAssoc = PrimaryAssoc(allAssocs),
                                                 !.primaryContact =
                                                   ContactRecord(PrimaryAssoc(allAssocs).toObjectId)]
                                    /\ pc' = "respond"
                               [] o = "bad" ->
                                    /\ loc' = [loc EXCEPT
                                                 !.primaryAssoc = PrimaryAssoc(allAssocs)]
                                    /\ pc' = "respond"
                               [] OTHER ->
                                    /\ loc' = [loc EXCEPT
                                                 !.primaryAssoc = PrimaryAssoc(allAssocs),
                                                 !.error = "getContact"]
                                    /\ pc' = "catch"
                ELSE /\ calls' = Append(calls, Call("getContactAssocs", req.dealId))
                     /\ out' = [out EXCEPT !.assoc = oa]
                     /\ loc' = loc
                     /\ pc' = "respond"
         [] oa = "bad" ->
              /\ calls' = Append(calls, Call("getContactAssocs", req.dealId))
              /\ out' = [out EXCEPT !.assoc = oa]
              /\ loc' = loc
              /\ pc' = "respond"
         [] OTHER ->
              /\ calls' = Append(calls, Call("getContactAssocs", req.dealId))
              /\ out' = [out EXCEPT !.assoc = oa]
              /\ loc' = [loc EXCEPT !.error = "getContactAssocs"]
              /\ pc' = "catch"
  /\ UNCHANGED <<env, crm, req, res, tk, rl, peer>>

\* part_000 lines 129-147: the total and the view model.
PoQuoteRespond ==
  /\ IsPoQuote("respond")
  /\ res' = [status |-> 200,
             body |-> [dealId |-> loc.deal.id,
                       dealName |-> Or(loc.deal.properties.dealname, Str(<<>>)),
                       amount |-> Or(ParseFloat(loc.deal.properties.amount),
                                     Total(loc.lineItems)),
                       total |-> Total(loc.lineItems),
                       lineItems |-> loc.lineItems,
                       existingQuote |-> loc.existingQuote,
                       primaryContact |-> loc.primaryContact,
                       title |-> Or(loc.deal.properties.po_quote_title, Str(<<>>)),
                       teamSize |-> Or(ParseInt(loc.deal.properties.po_team_size), Null)]]
  /\ pc' = "done"
  /\ UNCHANGED <<env, crm, req, loc, out, calls, tk, rl, peer>>

\* part_000 lines 149-151 and reportError (lines 1-14).
PoQuoteCatch ==
  /\ IsPoQuote("catch")
  /\ calls' = Append(calls, Call("errorAlert", req.dealId))
  /\ out' = [out EXCEPT !.report = "pending"]
  /\ pc' = "report"
  /\ UNCHANGED <<env, crm, req, loc, res, tk, rl, peer>>

\* part_000 line 152.
PoQuoteFail ==
  /\ IsPoQuote("fail")
  /\ res' = [status |-> 500,
             body |-> [error |-> "Failed to fetch data", details |-> loc.error]]
  /\ pc' = "done"
  /\ UNCHANGED <<env, crm, req, loc, out, calls, tk, rl, peer>>

PoQuoteNext ==
  \/ PoQuoteReceive
  \/ PoQuoteValidate
  \/ PoQuoteFetchDeal
  \/ PoQuoteLineItems
  \/ PoQuoteQuote
  \/ PoQuoteContact
  \/ PoQuoteRespond
  \/ PoQuoteCatch
  \/ PoQuoteFail

-----------------------------------------------------------------------------
(* The /api/deal read endpoint: api/deal.js (lines 1-133), and part_001,   *)
(* which also tells whether the Deal has a payer and reports its errors.   *)

DealEndpoints == {"deal", "deal-payer"}

\* What the CRM answers to the direct Deal fetch; the record's id is the
\* requested one.
DealProperties ==
  { [dealname |-> Str(<<"Acme 101">>), amount |-> Str(<<"2", "5", "0">>),
     stoning_budget_low |-> Str(<<"1", "0", "0">>),
     stoning_budget_high |-> Str(<<"2", "5", "0", ".", "5">>)],
    [dealname |-> Undefined, amount |-> Undefined,
     stoning_budget_low |-> Undefined, stoning_budget_high |-> Undefined],
    [dealname |-> Str(<<"Acme 101">>), amount |-> Str(<<"0">>),
     stoning_budget_low |-> Str(<<"0">>), stoning_budget_high |-> Str(<<"t", "b", "d">>)] }

\* What the CRM answers to POST /objects/deals/search: no results, or the
\* one Deal whose name holds the requested number, under its own id.
SearchResults ==
  { <<>> } \cup
  { <<[id |-> Str(<<"5", "5", "5">>), properties |-> d]>> : d \in DealProperties }

\* What the CRM answers to the Deal's contact associations in part_001;
\* one list carries the label "Payer" under another typeId.
DealContactAssocLists ==
  ContactAssocLists \cup
    { <<Entry(2, <<Unlabelled, [typeId |-> 7, label |-> "Payer"]>>)>> }

\* part_001 lines 102-104.
HasPayer(results) ==
  \E i \in DOMAIN results : \E j \in DOMAIN results[i].associationTypes :
     /\ results[i].associationTypes[j].typeId = 102
     /\ results[i].associationTypes[j].label = "Payer"

DealReceive ==
  /\ pc = "idle"
  /\ \E ep \in DealEndpoints : \E r \in ReadRequests(ep) : req' = r
  /\ pc' = "prelude"
  /\ loc' = ReadLocInit
  /\ UNCHANGED <<env, crm, out, calls, res, tk, rl, peer>>

IsDeal(at) == req.endpoint \in DealEndpoints /\ pc = at

\* part_001 lines 19-38.
DealValidate ==
  /\ IsDeal("prelude")
  /\ LET p == ReadPrelude(env, req)
     IN IF p.kind = "respond"
        THEN /\ res' = [status |-> p.status, body |-> p.body]
             /\ pc' = "done"
        ELSE /\ res' = res
             /\ pc' = "direct"
  /\ UNCHANGED <<env, crm, req, loc, out, calls, tk, rl, peer>>

\* Where the handler goes once it has its Deal.
AfterLookup == IF req.endpoint = "deal-payer" THEN "hasPayer" ELSE "lineItems"

\* part_001 lines 47-56: the Deal is looked up by the requested id.
DealDirect ==
  /\ IsDeal("direct")
  /\ calls' = Append(calls, Call("getDeal", req.dealId))
  /\ \E o \in Outcomes :
       /\ out' = [out EXCEPT !.deal = o]
       /\ CASE o = "ok" ->
                 \E d \in DealProperties :
                   /\ loc' = [loc EXCEPT
                                !.deal = [id |-> Str(JsString(req.dealId)), properties |-> d],
                                !.hubspotDealId = req.dealId]
                   /\ pc' = AfterLookup
            [] o = "bad" ->
                 /\ loc' = [loc EXCEPT !.hubspotDealId = req.dealId]
                 /\ pc' = "search"
            [] OTHER ->
                 /\ loc' = [loc EXCEPT !.error = "getDeal"]
                 /\ pc' = "catch"
  /\ UNCHANGED <<env, crm, req, res, tk, rl, peer>>

\* The search keeping the requested id as the effective one.
DealSearchKeepsRequestedId ==
  /\ IsDeal("search")
  /\ calls' = Append(calls, Call("searchDeals", req.dealId))
  /\ \E o \in Outcomes :
       /\ out' = [out EXCEPT !.search = o]
       /\ CASE o = "ok" ->
                 \E results \in SearchResults :
                   IF Len(results) > 0
                   THEN /\ loc' = [loc EXCEPT !.deal = results[1]]
                        /\ res' = res
                        /\ pc' = AfterLookup
                   ELSE /\ res' = [status |-> 404,
                                   body |-> [error |-> "Deal not found", dealId |-> req.dealId]]
                        /\ loc' = loc
                        /\ pc' = "done"
            [] o = "bad" ->
                 /\ res' = [status |-> 404,
                            body |-> [error |-> "Deal not found", dealId |-> req.dealId]]
                 /\ loc' = loc
                 /\ pc' = "done"
            [] OTHER ->
                 /\ loc' = [loc EXCEPT !.error = "searchDeals"]
                 /\ res' = res
                 /\ pc' = "catch"
  /\ UNCHANGED <<env, crm, req, tk, rl, peer>>

\* part_001 lines 57-91: the direct lookup answered a non-success status;
\* the Deal is searched by name, and the first result's id becomes the
\* effective Deal id.  No Deal: 404.
DealSearch ==
  /\ IsDeal("search")
  /\ calls' = Append(calls, Call("searchDeals", req.dealId))
  /\ \E o \in Outcomes :
       /\ out' = [out EXCEPT !.search = o]
       /\ CASE o = "ok" ->
                 \E results \in SearchResults :
                   IF Len(results) > 0
                   THEN /\ loc' = [loc EXCEPT !.deal = results[1],
                                              !.hubspotDealId = results[1].id]
                        /\ res' = res
                        /\ pc' = AfterLookup
                   ELSE /\ res' = [status |-> 404,
                                   body |-> [error |-> "Deal not found", dealId |-> req.dealId]]
                        /\ loc' = loc
                        /\ pc' = "done"
            [] o = "bad" ->
                 /\ res' = [status |-> 404,
                            body |-> [error |-> "Deal not found", dealId |-> req.dealId]]
                 /\ loc' = loc
                 /\ pc' = "done"
            [] OTHER ->
                 /\ loc' = [loc EXCEPT !.error = "searchDeals"]
                 /\ res' = res
                 /\ pc' = "catch"
  /\ UNCHANGED <<env, crm, req, tk, rl, peer>>

\* part_001 lines 93-106: whether a contact is associated as the payer; a
\* failure of any kind leaves hasPayer false.
DealHasPayer ==
  /\ IsDeal("hasPayer")
  /\ calls' = Append(calls, Call("getContactAssocs", loc.hubspotDealId))
  /\ \E o \in Outcomes :
       /\ out' = [out EXCEPT !.assoc = o]
       /\ IF o = "ok"
          THEN \E results \in DealContactAssocLists :
                 loc' = [loc EXCEPT !.contactAssocs = results,
                                    !.hasPayer = HasPayer(results)]
          ELSE loc' = loc
  /\ pc' = "lineItems"
  /\ UNCHANGED <<env, crm, req, res, tk, rl, peer>>

\* part_001 lines 108-146.
DealLineItems ==
  /\ IsDeal("lineItems")
  /\ \E w \in LineItemsSection(loc.hubspotDealId, TRUE) :
       /\ calls' = calls \o w.calls
       /\ out' = [out EXCEPT !.lineAssoc = w.lineAssoc, !.batch = w.batch]
       /\ loc' = [loc EXCEPT !.ids = w.ids, !.lineItems = w.lineItems, !.error = w.error]
       /\ pc' = IF w.error = "none" THEN "respond" ELSE "catch"
  /\ UNCHANGED <<env, crm, req, res, tk, rl, peer>>

\* part_001 lines 148-163 (api/deal.js 118-127, without hasPayer).
DealRespond ==
  /\ IsDeal("respond")
  /\ LET body == [dealId |-> loc.deal.id,
                  dealName |-> Or(loc.deal.properties.dealname, Str(<<"Your Order">>)),
                  amount |-> Or(ParseFloat(loc.deal.properties.amount),
                                Total(loc.lineItems)),
                  lineItems |-> loc.lineItems,
                  total |-> Total(loc.lineItems)]
     IN res' = [status |-> 200,
                body |-> IF req.endpoint = "deal-payer"
                         THEN body @@
                              [hasPayer |-> loc.hasPayer,
                               stoningBudgetLow |->
                                 Or(ParseFloat(loc.deal.properties.stoning_budget_low), Null),
                               stoningBudgetHigh |->
                                 Or(ParseFloat(loc.deal.properties.stoning_budget_high), Null)]
                         ELSE body]
  /\ pc' = "done"
  /\ UNCHANGED <<env, crm, req, loc, out, calls, tk, rl, peer>>

\* part_001 lines 165-167 and reportError (lines 1-14); api/deal.js has no
\* reporter.
DealCatch ==
  /\ IsDeal("catch")
  /\ req.endpoint = "deal-payer"
  /\ calls' = Append(calls, Call("errorAlert", req.dealId))
  /\ out' = [out EXCEPT !.report = "pending"]
  /\ pc' = "report"
  /\ UNCHANGED <<env, crm, req, loc, res, tk, rl, peer>>

\* part_001 line 168; api/deal.js lines 129-131.
DealFail ==
  /\ IsDeal("fail") \/ (IsDeal("catch") /\ req.endpoint = "deal")
  /\ res' = [status |-> 500,
             body |-> [error |-> "Failed to fetch deal data", details |-> loc.error]]
  /\ pc' = "done"
  /\ UNCHANGED <<env, crm, req, loc, out, calls, tk, rl, peer>>

DealNext ==
  \/ DealReceive
  \/ DealValidate
  \/ DealDirect
  \/ DealSearch
  \/ DealHasPayer
  \/ DealLineItems
  \/ DealRespond
  \/ DealCatch
  \/ DealFail

-----------------------------------------------------------------------------
(* Spec: one request to one handler, under every configuration.            *)

EnvValues == [secret : SecretValues, hubspotToken : {Undefined, Str(<<"pat">>)}]

Init ==
  /\ env \in EnvValues
  /\ crm = CrmInit
  /\ req = NoReq
  /\ pc = "idle"
  /\ loc = <<>>
  /\ out = NoOut
  /\ calls = <<>>
  /\ res = NoRes
  /\ tk = <<>>
  /\ rl = <<>>
  /\ peer = <<>>

\* The reporter letting an exception of the sink call through.
ReportSettledRaising ==
  /\ pc = "report"
  /\ out.report = "pending"
  /\ \E o \in Outcomes :
       /\ out' = [out EXCEPT !.report = o]
       /\ pc' = IF o = "throw" THEN "crashed" ELSE "fail"
  /\ UNCHANGED <<env, crm, req, loc, calls, res, tk, rl, peer>>

\* reportError (upload-po.js lines 3-16, part_000 lines 1-14): the handler
\* stays suspended on `await reportError(...)` until the call to the
\* alerting sink settles; whatever it answers or raises is swallowed.
ReportSettled ==
  /\ pc = "report"
  /\ out.report = "pending"
  /\ \E o \in Outcomes : out' = [out EXCEPT !.report = o]
  /\ pc' = "fail"
  /\ UNCHANGED <<env, crm, req, loc, calls, res, tk, rl, peer>>

Next == UploadPoNext \/ ReviewNext \/ PoQuoteNext \/ DealNext \/ ReportSettled

Spec == Init /\ [][Next]_vars

\* The steps of a handler's outer catch: the call of the reporter and,
\* once `await reportError(...)` has returned, the failure response.
ReportingNext ==
  /\ pc \in {"catch", "fail"}
  /\ \/ UploadPoCatch \/ UploadPoFail
     \/ ReviewCatch \/ ReviewFail
     \/ PoQuoteCatch \/ PoQuoteFail
     \/ DealCatch \/ DealFail

\* A handler that has caught an exception runs on; nothing is assumed of
\* the alerting sink.
LiveSpec == Spec /\ WF_vars(ReportingNext)

\* The alerting sink, too, eventually answers or fails.
FairSpec == LiveSpec /\ WF_vars(ReportSettled)

-----------------------------------------------------------------------------
(* The claims about the handlers.                                          *)

IsWrite == req.endpoint = "upload-po"
IsRead == req.endpoint = "po-quote-review"
Done == pc = "done"

\* The request carries what the token check needs and reaches it.
GateReached ==
  /\ req.endpoint \in {"upload-po", "po-quote-review"}
  /\ pc \notin {"idle", "prelude"}
  /\ req.method # "OPTIONS"
  /\ IsWrite => req.method = "POST"
  /\ ~Falsy(req.dealId)
  /\ ~Falsy(req.token)

\* What validateToken does with the request's token.
TokenVerdict == ValidateToken(env.secret, req.dealId, req.token)

\* The file payload fails the write endpoint's validation.
PayloadInvalid(r) ==
  \/ Falsy(r.fileData)
  \/ Falsy(r.fileName)
  \/ ~Falsy(r.fileType) /\ r.fileType.s \notin AllowedTypes
  \/ DecodedLength(r.fileData) > MaxSize

\* C1: in the write endpoint, once the upload call has failed (a
\* non-success status or an exception), no note, patch or notification
\* call is ever made and the request ends with HTTP 500.
C1_FailedUploadIsFatal ==
  IsWrite /\ out.upload \in {"bad", "throw"} =>
    /\ Ops(calls) \cap {"createNote", "patchDeal", "notify"} = {}
    /\ pc \in {"catch", "report", "fail", "done"}
    /\ Done => res.status = 500

\* The upload answered a non-success status and the request has ended.
C1_Witness ==
  IsWrite /\ Done /\ out.upload = "bad" /\ res.status = 500
  /\ calls[Len(calls)].op = "errorAlert"

\* C2: in the write endpoint, after a successful upload, when the note
\* creation or the PATCH (or both) answers a non-success status, the later
\* steps are still attempted and the response is HTTP 200
\* {success: true, fileUrl} with the URL of the uploaded file.
C2_NonSuccessWriteStepsDegrade ==
  /\ IsWrite /\ out.upload = "ok" /\ out.note = "bad" =>
       "patchDeal" \in Ops(calls) \/ pc = "patch"
  /\ IsWrite /\ out.upload = "ok" /\ out.note \in {"ok", "bad"} /\ out.patch = "bad" =>
       "notify" \in Ops(calls) \/ pc = "notify"
  /\ IsWrite /\ Done /\ out.upload = "ok"
       /\ out.note \in {"ok", "bad"} /\ out.patch \in {"ok", "bad"}
       /\ (out.note = "bad" \/ out.patch = "bad") =>
         res = [status |-> 200,
                body |-> [success |-> TRUE,
                          fileUrl |-> FileUrl(crm.files[Len(crm.files)].id)]]

\* Note creation and PATCH both answered a non-success status.
C2_Witness ==
  IsWrite /\ Done /\ out.upload = "ok" /\ out.note = "bad" /\ out.patch = "bad"
  /\ res.status = 200 /\ Len(crm.files) = 1 /\ crm.notes = <<>>

\* C3 (as claimed): in the write endpoint, once the upload has succeeded,
\* no failure of the note or PATCH step, a non-success status or an
\* exception raised by the call, fails the response: the request ends with
\* HTTP 200 and the uploaded file's URL.
C3_NoWriteStepFailureFailsTheResponse ==
  IsWrite /\ Done /\ out.upload = "ok" =>
    res = [status |-> 200,
           body |-> [success |-> TRUE,
                     fileUrl |-> FileUrl(crm.files[Len(crm.files)].id)]]

\* C4: a write-endpoint request that ends Rejected (HTTP 400, 403 or 405)
\* has made no external call: no CRM read, upload, note, patch,
\* notification or diagnostic report.
C4_RejectedWithoutSideEffects ==
  IsWrite /\ Done /\ res.status \in {400, 403, 405} =>
    calls = <<>> /\ crm = CrmInit

\* A request with a valid token rejected for its oversize payload.
C4_Witness ==
  IsWrite /\ Done /\ res.status = 400 /\ TokenVerdict = "true"
  /\ res.body = ErrorBody("File is too large (max 3MB)") /\ calls = <<>>

\* C5 (as claimed): the file payload is validated before the token is
\* authorized, so a request whose payload is invalid is answered HTTP 400
\* whether its token is valid or not.
C5_PayloadValidatedBeforeToken ==
  IsWrite /\ Done /\ GateReached /\ PayloadInvalid(req)
    /\ TokenVerdict \in {"true", "false"} =>
      res.status = 400

\* C5 (amended): the token is authorized before the file payload is
\* validated: with dealId and token present, a token that does not verify
\* is answered HTTP 403 whatever the payload, and a payload error (HTTP
\* 400) is answered only to a token that verifies.
C5_TokenAuthorizedBeforePayload ==
  IsWrite /\ Done /\ GateReached =>
    /\ TokenVerdict = "false" =>
         res = [status |-> 403, body |-> ErrorBody("Invalid or expired link")]
    /\ res.status = 400 => TokenVerdict = "true" /\ PayloadInvalid(req)

\* A request with an invalid payload and a token that does not verify.
C5_Witness ==
  IsWrite /\ Done /\ GateReached /\ PayloadInvalid(req)
  /\ TokenVerdict = "false" /\ res.status = 403

\* Every dealId and token a caller may send.
AnyDealId == DealIdValues \ {Undefined}
AnyToken(d) == TokenValues(SecretA, d) \cup TokenValues(SecretB, d)

\* C7: validateToken is false for every dealId and token when the secret
\* is unset, and for every dealId when the token is empty or absent; a
\* request to a token-gated endpoint in either case makes no external call
\* and is refused (never HTTP 200).
C7_FailClosed ==
  /\ Falsy(env.secret) =>
       \A d \in AnyDealId : \A t \in AnyToken(d) :
          ValidateToken(env.secret, d, t) = "false"
  /\ \A d \in AnyDealId : \A t \in {Undefined, Str(<<>>)} :
       ValidateToken(env.secret, d, t) = "false"
  /\ (IsWrite \/ IsRead) /\ req.method # "OPTIONS"
       /\ (Falsy(env.secret) \/ Falsy(req.token)) =>
         /\ calls = <<>>
         /\ pc \in {"prelude", "done"}
         /\ Done => res.status \in {400, 403, 405}

\* With the secret unset, the token issued under SecretA is refused by the
\* read endpoint.
C7_Witness ==
  IsRead /\ Done /\ Falsy(env.secret) /\ ~Falsy(env.hubspotToken)
  /\ ~Falsy(req.dealId) /\ req.token = Str(Issue(SecretA, req.dealId))
  /\ res.status = 403

\* C8 (as claimed): validateToken returns true or false for every token
\* and never raises, so a token-gated endpoint answers HTTP 403 to every
\* token that does not match.
C8_VerifyIsTotal ==
  GateReached =>
    /\ TokenVerdict \in {"true", "false"}
    /\ TokenVerdict # "true" => Done /\ res.status = 403

\* C9 (as claimed): in the read endpoint, a request whose token is missing
\* or does not verify is answered HTTP 403 before any CRM call, with a
\* body that does not depend on what the CRM holds.
C9_UnauthorizedReadIsRefused ==
  IsRead /\ pc \notin {"idle", "prelude"} /\ req.method # "OPTIONS"
    /\ ~Falsy(req.dealId)
    /\ (Falsy(req.token) \/ TokenVerdict # "true") =>
      /\ Done
      /\ calls = <<>>
      /\ res \in {[status |-> 403, body |-> ErrorBody("Access denied")],
                  [status |-> 403, body |-> ErrorBody("Invalid or expired link")]}

\* The endpoints by kind.
AnyRead == req.endpoint \in {"po-quote-review", "po-quote"} \cup DealEndpoints
AnyWrite == req.endpoint \in UploadEndpoints
TokenGated == req.endpoint \in {"po-quote-review"} \cup UploadEndpoints

\* A line item's share of the total: its amount when that is not zero, or
\* else its price times its quantity.
ItemValue(item) ==
  IF item.amount # Zero THEN item.amount ELSE DblMul(item.price, item.quantity)

RECURSIVE AddUp(_, _)
\* The values added to sum one after the other.
AddUp(sum, values) ==
  IF values = <<>> THEN sum ELSE AddUp(DblAdd(sum, Head(values)), Tail(values))

\* C12 (as claimed): in every read handler, the response's total is the sum
\* over the resolved line items of the amount, or of price times quantity
\* for an item whose amount is zero; it is the same for every ordering of
\* the same line items, and 0 when there are none.
C12_TotalIsOrderIndependentSum ==
  AnyRead /\ Done /\ res.status = 200 /\ req.method # "OPTIONS" =>
    LET items == res.body.lineItems
        value == [i \in DOMAIN items |-> ItemValue(items[i])]
    IN /\ items = <<>> => res.body.total = Zero
       /\ \A p \in Orderings(Len(items)) :
            res.body.total = AddUp(Zero, [i \in DOMAIN items |-> value[p[i]]])

\* The request meets every check of its handler that does not depend on
\* the configuration: method, dealId, token and, for an upload, the file.
WellFormed ==
  /\ req.endpoint # "none" /\ pc \notin {"idle", "prelude"}
  /\ req.method # "OPTIONS"
  /\ AnyWrite => req.method = "POST" /\ ~PayloadInvalid(req)
  /\ ~Falsy(req.dealId)
  /\ TokenGated => ~Falsy(req.token)

\* C13 (as claimed): in every handler, when the CRM token is absent, or the
\* token secret in a token-gated endpoint, a well-formed request is
\* answered HTTP 500 and no external call is made.
C13_MissingConfigurationIs500 ==
  WellFormed /\ (\/ Falsy(env.hubspotToken) /\ (TokenGated => TokenVerdict = "true")
                 \/ TokenGated /\ Falsy(env.secret)) =>
    Done /\ res.status = 500 /\ calls = <<>>

\* C13 (amended): when the CRM token is absent, a well-formed request
\* (whose token verifies, in a token-gated endpoint) is answered HTTP 500
\* "HubSpot token not configured" and no external call is made; when the
\* token secret is absent, a token-gated endpoint answers a well-formed
\* request HTTP 403, not 500, and no external call is made.
C13_MissingCrmTokenIs500SecretIs403 ==
  /\ WellFormed /\ Falsy(env.hubspotToken) /\ (TokenGated => TokenVerdict = "true") =>
       /\ Done
       /\ res = [status |-> 500, body |-> ErrorBody("HubSpot token not configured")]
       /\ calls = <<>>
  /\ WellFormed /\ TokenGated /\ Falsy(env.secret) =>
       /\ Done
       /\ res = [status |-> 403, body |-> ErrorBody("Invalid or expired link")]
       /\ calls = <<>>

\* The po-quote handler has answered 500 for want of the CRM token.
C13_Witness ==
  /\ req.endpoint = "po-quote" /\ WellFormed /\ Falsy(env.hubspotToken)
  /\ Done /\ res.status = 500 /\ calls = <<>>

IsDealRead == req.endpoint \in DealEndpoints

\* The calls that walk an association edge of the Deal.
AssociationCalls ==
  {i \in DOMAIN calls : calls[i].op \in {"getContactAssocs", "getLineItemAssocs"}}

\* C14: in the /api/deal handlers, the name search is issued only after the
\* direct lookup answered a non-success status; when the search returns a
\* match, every association call of the request (contacts, line items)
\* carries the match's id, not the requested dealId, and the response's
\* dealId is that id; when the search answers a non-success status or no
\* result, the response is HTTP 404 and no association call is made.
C14_SearchFallback ==
  IsDealRead =>
    /\ \A i \in DOMAIN calls : calls[i].op = "searchDeals" =>
         /\ i = 2 /\ calls[1] = Call("getDeal", req.dealId)
         /\ out.deal = "bad"
    /\ out.deal = "bad" /\ out.search = "ok" /\ loc.deal # Null =>
         /\ \A i \in AssociationCalls : calls[i].id = loc.deal.id
         /\ Done /\ res.status = 200 => res.body.dealId = loc.deal.id
    /\ out.deal = "bad" /\ (out.search = "bad" \/ (out.search = "ok" /\ loc.deal = Null)) =>
         /\ Done
         /\ res = [status |-> 404,
                   body |-> [error |-> "Deal not found", dealId |-> req.dealId]]
         /\ AssociationCalls = {}

\* The direct lookup of Deal 101 failed, the search matched Deal 555, and
\* contacts and line items were fetched for 555.
C14_Witness ==
  /\ req.endpoint = "deal-payer" /\ Done /\ res.status = 200
  /\ out.deal = "bad" /\ out.search = "ok"
  /\ req.dealId = Str(<<"1", "0", "1">>)
  /\ res.body.dealId = Str(<<"5", "5", "5">>)
  /\ Cardinality(AssociationCalls) = 2
  /\ \A i \in AssociationCalls : calls[i].id = Str(<<"5", "5", "5">>)

\* The Deal of the request was found: by its id, or by the name search.
DealResolved ==
  \/ out.deal = "ok"
  \/ IsDealRead /\ out.search = "ok" /\ loc.deal # Null

\* The outcomes of the association and related-detail fetches of a request.
SecondaryOutcomes ==
  {out.lineAssoc, out.batch, out.quoteAssoc, out.quote, out.assoc, out.payer, out.primary}

Answered200 == Done /\ res.status = 200

\* C15: in the read handlers, a non-success status from a line-item
\* association, line-item batch read, quote association, quote fetch,
\* contact association or contact fetch leaves that part at its default
\* (no line items, null quote, null contact) and, no call raising, the
\* request ends with HTTP 200; a non-success status from the Deal fetch
\* (for /api/deal: from the direct lookup and the search) ends it with
\* HTTP 404; a batch read or detail fetch is issued only after its
\* association answered a non-empty list.
C15_DegradedAssociations ==
  AnyRead /\ pc \notin {"idle", "prelude"} =>
    /\ DealResolved /\ Done /\ "throw" \notin SecondaryOutcomes => res.status = 200
    /\ DealResolved /\ "bad" \in {out.lineAssoc, out.batch} =>
         /\ loc.lineItems = <<>>
         /\ Answered200 => res.body.lineItems = <<>> /\ res.body.total = Zero
    /\ req.endpoint = "po-quote" /\ "bad" \in {out.quoteAssoc, out.quote} =>
         /\ loc.existingQuote = Null
         /\ Answered200 => res.body.existingQuote = Null
    /\ req.endpoint = "po-quote" /\ "bad" \in {out.assoc, out.primary} =>
         /\ loc.primaryContact = Null
         /\ Answered200 => res.body.primaryContact = Null
    /\ req.endpoint = "po-quote-review" =>
         /\ "bad" \in {out.assoc, out.payer} =>
              /\ loc.payerContact = Null
              /\ Answered200 => res.body.payerContact = Null
         /\ "bad" \in {out.assoc, out.primary} =>
              /\ loc.primaryContact = Null
              /\ Answered200 => res.body.primaryContact = Null
    /\ req.endpoint = "deal-payer" /\ out.assoc = "bad" =>
         /\ loc.hasPayer = FALSE
         /\ Answered200 => res.body.hasPayer = FALSE
    /\ out.deal = "bad" /\ (IsDealRead => out.search = "bad") =>
         /\ Done /\ res.status = 404
         /\ Ops(calls) \subseteq {"getDeal", "searchDeals"}
    /\ "batchReadLineItems" \in Ops(calls) => out.lineAssoc = "ok" /\ loc.ids # <<>>
    /\ "getQuote" \in Ops(calls) => out.quoteAssoc = "ok" /\ loc.quoteIds # <<>>
    /\ "getContact" \in Ops(calls) =>
         /\ out.assoc = "ok"
         /\ \/ loc.primaryAssoc # Undefined
            \/ req.endpoint = "po-quote-review" /\ loc.payerAssoc # Undefined

\* A po-quote request whose batch read, quote fetch and contact fetch all
\* answered a non-success status, ended with 200 and the defaults.
C15_Witness ==
  /\ req.endpoint = "po-quote" /\ Answered200
  /\ out.deal = "ok" /\ out.lineAssoc = "ok" /\ out.batch = "bad"
  /\ out.quoteAssoc = "ok" /\ out.quote = "bad"
  /\ out.assoc = "ok" /\ out.primary = "bad"
  /\ loc.ids # <<>> /\ loc.quoteIds # <<>> /\ loc.primaryAssoc # Undefined
  /\ res.body.lineItems = <<>> /\ res.body.existingQuote = Null
  /\ res.body.primaryContact = Null

\* The critical path of the request went through: the Deal was found and,
\* in the write endpoint, the file was stored (a raised note or PATCH call
\* is the subject of C3).
CriticalPathPassed ==
  \/ AnyRead /\ DealResolved
  \/ AnyWrite /\ out.deal = "ok" /\ out.upload = "ok"
       /\ "throw" \notin {out.note, out.patch}

\* C16: only a failure on the critical path (Deal fetch, file upload,
\* token/shape validation) aborts a request: in every handler, whatever the
\* line-item association, batch read, quote, contact association and
\* contact fetches answer or raise, a request whose critical path went
\* through ends with its success response.
C16_OnlyCriticalPathAborts ==
  Done /\ CriticalPathPassed => res.status = 200

\* C17: in both variants of the write endpoint, a notification call that
\* answers a non-success status or raises never changes the outcome: the
\* handler goes on to its response, HTTP 200 {success: true, fileUrl} for
\* the stored file, and sends no report to the alerting sink.
C17_NotificationNeverChangesOutcome ==
  AnyWrite /\ out.notify \in {"bad", "throw"} =>
    /\ out.upload = "ok"
    /\ pc \in {"respond", "done"}
    /\ "errorAlert" \notin Ops(calls)
    /\ out.report = "none"
    /\ Done => res = [status |-> 200,
                      body |-> [success |-> TRUE, fileUrl |-> loc.fileUrl]]

\* An upload whose notification call raised, answered 200 with the URL of
\* the stored file.
C17_Witness ==
  /\ req.endpoint = "upload-po" /\ Done
  /\ out.notify = "throw"
  /\ res.status = 200 /\ res.body.fileUrl = FileUrl(loc.fileId)
  /\ calls[Len(calls)].op = "notify"

\* The failure response of each handler's outer catch; it is made of the
\* endpoint and the raised error alone.
FailureResponse ==
  [status |-> 500,
   body |-> [error |-> CASE AnyWrite -> "Upload failed"
                         [] IsDealRead -> "Failed to fetch deal data"
                         [] OTHER -> "Failed to fetch data",
             details |-> loc.error]]

\* C18: the Error Reporter never raises and never alters the response: once
\* its call has settled, whether the alerting sink accepted the report,
\* answered an error status or was unreachable, the handler goes on to its
\* failure response, and status and body are the same in the three cases.
C18_ReporterNeverAltersResponse ==
  /\ out.report = "pending" => pc = "report"
  /\ out.report \in Outcomes =>
       /\ calls[Len(calls)].op = "errorAlert"
       /\ pc \in {"fail", "done"}
       /\ Done => res = FailureResponse

\* A po-quote request whose contact fetch raised, answered 500 although the
\* alerting sink was unreachable.
C18_Witness ==
  /\ req.endpoint = "po-quote" /\ Done
  /\ out.primary = "throw" /\ out.report = "throw"
  /\ res = FailureResponse /\ loc.error = "getContact"

\* C19: no request that ends with a client error (HTTP 400, 403 or 405)
\* makes a call to the alerting sink; a report is sent only from the outer
\* catch, after a call raised or the file upload was refused, on a path
\* that ends with HTTP 500.
C19_ClientErrorsAreNeverReported ==
  /\ Done /\ res.status \in {400, 403, 405} =>
       "errorAlert" \notin Ops(calls) /\ out.report = "none"
  /\ "errorAlert" \in Ops(calls) =>
       /\ loc.error # "none"
       /\ \/ "throw" \in {out.deal, out.search, out.upload, out.note, out.patch}
                           \cup SecondaryOutcomes
          \/ AnyWrite /\ out.upload = "bad"
       /\ pc \in {"report", "fail", "done"}
       /\ Done => res.status = 500

\* A write request with a verifying token rejected for its missing file
\* name: no call was made, to the alerting sink or elsewhere.
C19_Witness ==
  /\ req.endpoint = "upload-po-single" /\ Done /\ res.status = 400
  /\ TokenVerdict = "true" /\ Falsy(req.fileName)
  /\ out.report = "none" /\ calls = <<>>

\* A write request with the file name and data present and the type
\* allowed, past the handler's validation.
SizeCheckReached ==
  /\ AnyWrite /\ req.method = "POST" /\ pc # "prelude"
  /\ ~Falsy(req.fileName) /\ ~Falsy(req.fileData)
  /\ Falsy(req.fileType) \/ req.fileType.s \in AllowedTypes

\* The request was answered by the validation, before the first call.
AnsweredByValidation == Done /\ calls = <<>>

\* The number of base64 characters that decode to exactly MaxSize bytes.
BoundaryChars == 4 * (MaxSize \div 3)

\* C20: in the write endpoint, with a valid token and file name, a payload
\* that decodes to exactly 3*1024*1024 bytes passes validation (the only
\* answer before the first call is the 500 of a missing CRM token) and one
\* that decodes to 3*1024*1024+1 bytes is rejected with HTTP 400 and the
\* size-limit message; the size is that of the decoded bytes, with or
\* without a data-URL prefix, not that of the (longer) base64 text.
C20_SizeBoundary ==
  SizeCheckReached =>
    /\ req.fileData.chars = BoundaryChars
         /\ AnsweredByValidation /\ TokenVerdict = "true" =>
           res.status = 500 /\ Falsy(env.hubspotToken)
    /\ req.fileData.chars = BoundaryChars + 2 /\ pc # "crashed" =>
         /\ AnsweredByValidation
         /\ TokenVerdict = "true" =>
              res = [status |-> 400, body |-> ErrorBody("File is too large (max 3MB)")]

\* A file of exactly 3 MB, sent as a data URL of more than 4 million
\* characters, was stored and the request answered 200.
C20_Witness ==
  /\ req.endpoint = "upload-po" /\ Done /\ res.status = 200
  /\ req.fileData = Base64Text(TRUE, BoundaryChars)
  /\ DecodedLength(req.fileData) = MaxSize
  /\ Len(crm.files) = 1

\* The positions of the calls of one operation.
CallsOf(op) == {i \in DOMAIN calls : calls[i].op = op}

\* The external writes of the write endpoint, in the handler's order.
WriteOps == <<"uploadFile", "createNote", "patchDeal", "notify">>

\* C21: within one write-endpoint request each external write is issued
\* at most once and never re-attempted after a failure: at most one
\* upload, one note creation, one Deal PATCH and one notification call, in
\* that order, each only after the previous call has settled; a request
\* that completes successfully issued exactly one upload and exactly one
\* note-creation call.
C21_WritesAtMostOnceInOrder ==
  AnyWrite =>
    /\ \A k \in DOMAIN WriteOps : Cardinality(CallsOf(WriteOps[k])) <= 1
    /\ \A k, l \in DOMAIN WriteOps :
         \A i \in CallsOf(WriteOps[k]), j \in CallsOf(WriteOps[l]) :
            k < l => i < j
    /\ CallsOf("createNote") # {} => out.upload = "ok"
    /\ CallsOf("patchDeal") # {} => out.note \in {"ok", "bad"}
    /\ CallsOf("notify") # {} => out.patch \in {"ok", "bad"}
    /\ Answered200 /\ req.method = "POST" =>
         /\ Cardinality(CallsOf("uploadFile")) = 1
         /\ Cardinality(CallsOf("createNote")) = 1
         /\ Len(crm.files) = 1 /\ Len(crm.notes) <= 1

\* A successful upload whose note and PATCH both answered a non-success
\* status: each write was called once, none a second time.
C21_Witness ==
  /\ req.endpoint = "upload-po" /\ Answered200
  /\ out.note = "bad" /\ out.patch = "bad"
  /\ Len(calls) >= 4
  /\ [i \in 1..4 |-> calls[Len(calls) - 4 + i].op] = WriteOps

\* C22: in the write endpoint of api/upload-po.js, the HTTP 200 success
\* response is sent only after the notification call has settled: when the
\* handler is about to respond, and once it has responded, the
\* notification is its last call and has succeeded or failed.
C22_ResponseAfterNotification ==
  /\ req.endpoint = "upload-po" /\ req.method = "POST"
  /\ pc = "respond" \/ Answered200
  => /\ out.notify \in Outcomes
     /\ CallsOf("notify") = {Len(calls)}

\* The notification answered a non-success status, and then the 200 was
\* sent.
C22_Witness ==
  /\ req.endpoint = "upload-po" /\ Answered200
  /\ out.notify = "bad" /\ out.patch = "ok"
  /\ CallsOf("notify") = {Len(calls)}
  /\ loc.payload # Undefined

\* C23: diagnostic emission is fire-and-forget: on a path that reports an
\* error, the handler sends its HTTP 500 response without waiting for the
\* alerting sink, so the response is eventually sent even when the sink
\* never replies.
C23_ResponseWithoutWaitingForSink ==
  (out.report = "pending") ~> Done

\* The address the CRM holds for the contact of an association entry.
EmailOf(assoc) == Or(ContactRecord(assoc.toObjectId).email, Str(<<>>))

\* The dual-recipient handler has built its notification.
Notified == req.endpoint = "upload-po" /\ loc.payload # Undefined

\* C24: in the dual-recipient write endpoint the notification's recipients
\* follow strategy B for every association list and every outcome of the
\* contact fetches: when a Payer exists the recipient is the Payer, and
\* the Primary Contact is CC exactly when it is present and its address
\* differs from the Payer's; when no Payer exists the Primary Contact is
\* the sole recipient and the CC is empty.
C24_RecipientsFollowStrategyB ==
  Notified =>
    LET payer == loc.payerAssoc
        primary == loc.primaryAssoc
        to == loc.payload.contactEmail
        cc == loc.payload.ccEmail
    IN IF payer # Undefined
       THEN /\ ~Falsy(to) => to = EmailOf(payer)
            /\ ~Falsy(cc) => cc = EmailOf(primary) /\ cc # EmailOf(payer)
            /\ out.payer = "ok" /\ out.primary = "ok" /\ ~Falsy(EmailOf(primary))
                 /\ EmailOf(primary) # EmailOf(payer) => cc = EmailOf(primary)
       ELSE /\ Falsy(cc)
            /\ ~Falsy(to) => to = EmailOf(primary)
            /\ out.primary = "ok" => to = EmailOf(primary)

\* C30: in the dual-recipient write endpoint, the notification payload
\* always satisfies: a non-empty ccEmail comes with a non-empty
\* contactEmail that differs from it; the same address is never both the
\* recipient and the CC, and there is never a CC without a recipient.
C30_CcNeedsDistinctRecipient ==
  req.endpoint = "upload-po" /\ pc \notin {"idle", "prelude", "crashed"} =>
    /\ ~Falsy(loc.ccEmail) =>
         ~Falsy(loc.contactEmail) /\ loc.ccEmail # loc.contactEmail
    /\ loc.payload # Undefined =>
         /\ loc.payload.contactEmail = loc.contactEmail
         /\ loc.payload.ccEmail = loc.ccEmail
         /\ ~Falsy(loc.payload.ccEmail) =>
              /\ ~Falsy(loc.payload.contactEmail)
              /\ loc.payload.ccEmail # loc.payload.contactEmail

\* A notification sent to the Payer with the Primary Contact, of another
\* address, in copy.
C30_Witness ==
  /\ Notified /\ Done
  /\ loc.payerAssoc # Undefined /\ loc.primaryAssoc # Undefined
  /\ loc.payload.contactEmail = EmailOf(loc.payerAssoc)
  /\ loc.payload.ccEmail = EmailOf(loc.primaryAssoc)
  /\ ~Falsy(loc.payload.ccEmail)
  /\ loc.payerAssoc # loc.primaryAssoc

\* C25: label presence is the only signal used to decide roles,
\* consistently across handlers: for any contact association list,
\* /api/deal reports hasPayer = true exactly when some entry carries the
\* label "Payer", that is exactly when the resolver of po-quote-review and
\* upload-po selects a Payer for the same list; the association typeId
\* plays no part.
C25_HasPayerIffPayerLabel ==
  req.endpoint = "deal-payer" /\ Answered200 /\ out.assoc = "ok" =>
    /\ res.body.hasPayer <=> PayerAssoc(loc.contactAssocs) # Undefined
    /\ res.body.hasPayer <=> CountLabelled(loc.contactAssocs, "Payer") > 0

\* What the claimed coercion makes of a parsed field: the parsed number
\* whenever the field parses, the fallback otherwise.
ParsedOr(parsed, fallback) == IF parsed # NaN THEN parsed ELSE fallback

\* C26: field coercion uses the fallback only when the CRM field is absent
\* or fails to parse: for every field that parses as a number (0
\* included) the response carries the parsed number, for line-item price,
\* quantity and amount, for the Deal amount, teamSize and the stoning
\* budgets; the fallback (0 for price and line amount, 1 for quantity, the
\* computed total for the Deal amount, null for teamSize and budgets)
\* appears only for an absent or unparseable field.
C26_FallbackOnlyWhenUnparseable ==
  AnyRead /\ Answered200 /\ req.method # "OPTIONS" =>
    /\ \A i \in DOMAIN res.body.lineItems :
         LET raw == LineItemRecord(loc.ids[i])
             item == res.body.lineItems[i]
         IN /\ item.price = ParsedOr(ParseFloat(raw.price), Zero)
            /\ item.quantity = ParsedOr(ParseInt(raw.quantity), DecimalToDouble(1, 1))
            /\ item.amount = ParsedOr(ParseFloat(raw.amount), Zero)
    /\ req.endpoint # "po-quote-review" =>
         res.body.amount = ParsedOr(ParseFloat(loc.deal.properties.amount), res.body.total)
    /\ req.endpoint = "po-quote" =>
         res.body.teamSize = ParsedOr(ParseInt(loc.deal.properties.po_team_size), Null)
    /\ req.endpoint = "deal-payer" =>
         /\ res.body.stoningBudgetLow =
              ParsedOr(ParseFloat(loc.deal.properties.stoning_budget_low), Null)
         /\ res.body.stoningBudgetHigh =
              ParsedOr(ParseFloat(loc.deal.properties.stoning_budget_high), Null)

\* The supplied token as the comparison takes it: cut to its first 16
\* characters and right-padded with '0' to 16.
Normalised(token) == PadEnd(Substring0(JsString(token), TokenLen), TokenLen, "0")

\* C27: with the secret set and a non-empty supplied token t, every
\* verification of t is true exactly when t cut to its first 16 characters
\* and right-padded with '0' to 16 equals the expected 16-character token;
\* the result for t is the result for its first 16 characters and the
\* result for t extended with '0's.
C27_VerifyComparesNormalisedToken ==
  tk # <<>> /\ ~Falsy(tk.secret) /\ ~Falsy(tk.token) =>
    /\ \A i \in 1..Len(tk.results) :
         (tk.results[i] = "true") <=> (Normalised(tk.token) = Issue(tk.secret, tk.dealId))
    /\ \A i \in 1..Len(tk.results) :
         /\ tk.results[i] =
              ValidateToken(tk.secret, tk.dealId, Str(Substring0(JsString(tk.token), TokenLen)))
         /\ tk.results[i] = ValidateToken(tk.secret, tk.dealId, Str(Normalised(tk.token)))

\* A supplied token longer than 16 characters, whose first 16 are the
\* expected token, has been verified.
C27_Witness ==
  /\ tk # <<>> /\ ~Falsy(tk.secret) /\ ~tk.issued /\ ~Falsy(tk.token)
  /\ Len(tk.token.s) > TokenLen
  /\ tk.results # <<>> /\ tk.results[1] = "true"

\* C28: in the write endpoint, when the primary Deal fetch returns a
\* non-success status the request ends with HTTP 404 and the Deal fetch is
\* the only call ever made: no contact lookup, upload, note, patch,
\* notification or diagnostic report follows and the CRM is left as it was.
C28_DealNotFoundStopsTheUpload ==
  IsWrite /\ out.deal = "bad" =>
    /\ Done
    /\ res = [status |-> 404, body |-> ErrorBody("Deal not found")]
    /\ calls = <<Call("getDeal", req.dealId)>>
    /\ crm = CrmInit
    /\ out.report = "none"

\* An authorized upload with a valid payload whose Deal fetch answered a
\* non-success status.
C28_Witness ==
  /\ IsWrite /\ req.endpoint = "upload-po" /\ out.deal = "bad" /\ Done
  /\ res.status = 404 /\ Len(calls) = 1

\* C29: every request to every handler ends with exactly one HTTP
\* response on every path: no handler stops without having sent a
\* response, and a response, once sent, is the handler's last step.
C29_ExactlyOneResponse ==
  req.endpoint # "none" =>
    /\ pc # "crashed"
    /\ res # NoRes <=> Done

-----------------------------------------------------------------------------
(* Two uploads for the same Deal in flight at once.  Each invocation of    *)
(* the handler has its own request, locals and response; the CRM is what   *)
(* they share.  One request runs while the other is suspended at an await, *)
(* and either may be the one to go on.                                     *)

\* The running request as it stands between two awaits.
Context == [req |-> req, pc |-> pc, loc |-> loc, out |-> out, res |-> res]

\* A request for Deal d that has passed the checks, read the Deal (its
\* properties being deal) and found no contact on it, and is about to
\* upload (upload-po.js line 150).
UploadsInFlight(d, deal) ==
  { [req |-> [endpoint |-> "upload-po", method |-> "POST", dealId |-> d,
              token |-> Str(Issue(SecretA, d)),
              fileName |-> Str(<<"po", ".", "pdf">>), fileType |-> ty,
              fileData |-> Base64Text(FALSE, 8)],
     pc |-> "upload",
     loc |-> [UploadLocInit EXCEPT !.dealName = deal.dealname,
                                   !.quoteTitle = Or(deal.po_quote_title, deal.dealname)],
     out |-> [NoOut EXCEPT !.deal = "ok", !.assoc = "ok"],
     res |-> NoRes] :
       ty \in {Undefined, Str(<<"application/pdf">>)} }

ConcInit ==
  /\ env = [secret |-> SecretA, hubspotToken |-> Str(<<"pat">>)]
  /\ crm = CrmInit
  /\ \E d \in {Num(101)}, deal \in {r \in DealRecords : r.dealname # Undefined} :
       /\ \E a \in UploadsInFlight(d, deal) :
            /\ req = a.req
            /\ pc = a.pc
            /\ loc = a.loc
            /\ out = a.out
            /\ res = a.res
       /\ peer \in UploadsInFlight(d, deal)
       /\ calls = <<Call("getDeal", d), Call("getDeal", d),
                    Call("getContactAssocs", d), Call("getContactAssocs", d)>>
  /\ tk = <<>>
  /\ rl = <<>>

\* The suspended request goes on and the running one is suspended at its
\* await.  A request that has sent its response takes no further step.
Resume ==
  /\ peer # <<>>
  /\ peer.pc # "done"
  /\ peer' = Context
  /\ req' = peer.req
  /\ pc' = peer.pc
  /\ loc' = peer.loc
  /\ out' = peer.out
  /\ res' = peer.res
  /\ UNCHANGED <<env, crm, calls, tk, rl>>

ConcNext ==
  \/ Resume
  \/ UploadPoUpload
  \/ UploadPoNote
  \/ UploadPoPatch
  \/ UploadPoNotify
  \/ UploadPoRespond
  \/ UploadPoCatch
  \/ ReportSettled
  \/ UploadPoFail

ConcSpec == ConcInit /\ [][ConcNext]_vars

BothFinished == peer # <<>> /\ pc = "done" /\ peer.pc = "done"

\* The request answered HTTP 200 with its file stored, its note created and
\* its PATCH applied.
Succeeded(c) ==
  /\ c.res.status = 200
  /\ c.out.upload = "ok" /\ c.out.note = "ok" /\ c.out.patch = "ok"

\* The Deal's document URL and file reference are those of one stored file.
FromOneUpload(f) ==
  /\ crm.props.po_document_url = FileUrl(f.id)
  /\ crm.props.po = Str(JsString(f.id))

\* C31: when two write-endpoint requests for the same Deal run
\* concurrently and both succeed, under any interleaving of their external
\* calls, each has created its own file and its own note, and once both
\* have finished the Deal's document URL and file reference come from the
\* same one of the two uploads; at no moment do the two fields hold a mix
\* of the two requests.
C31_ConcurrentUploadsStayCoherent ==
  /\ peer # <<>> =>
       \/ crm.props.po_document_url = Undefined /\ crm.props.po = Undefined
       \/ \E i \in DOMAIN crm.files : FromOneUpload(crm.files[i])
  /\ BothFinished /\ Succeeded(Context) /\ Succeeded(peer) =>
       /\ loc.fileId # peer.loc.fileId
       /\ {crm.files[i].id : i \in DOMAIN crm.files} = {loc.fileId, peer.loc.fileId}
       /\ Len(crm.files) = 2
       /\ Len(crm.notes) = 2
       /\ {crm.notes[i].fileId : i \in DOMAIN crm.notes} = {loc.fileId, peer.loc.fileId}
       /\ \A i \in DOMAIN crm.notes : crm.notes[i].dealId = req.dealId
       /\ \E c \in {Context, peer} :
            /\ crm.props.po_document_url = c.loc.fileUrl
            /\ crm.props.po = Str(JsString(c.loc.fileId))

\* Both requests have succeeded and the Deal points at the file that was
\* stored first: the request that uploaded first patched last.
C31_Witness ==
  /\ BothFinished /\ Succeeded(Context) /\ Succeeded(peer)
  /\ Len(crm.files) = 2
  /\ FromOneUpload(crm.files[1])

=============================================================================
